---- MODULE Spec2Model ----
(***************************************************************************)
(* Model of the Studionyx backend: the grounding policy                    *)
(* (geminiService.js: textCitesMaterial, enforceGrounding), the ingestion  *)
(* pipeline (ingestion.js: ingestStudyMaterials), the in-memory store      *)
(* (storage.js) and the orchestrators' requireMaterial.                    *)
(*                                                                         *)
(* Strings are TLA+ strings, i.e. sequences of characters: Len, \o and     *)
(* SubSeq act on them character by character, so the regular expressions   *)
(* of the source are modelled as matchers over characters.                 *)
(***************************************************************************)
EXTENDS Integers, Sequences, FiniteSets, TLC

VARIABLES
    gText,      \* grounding: the raw model text handed to enforceGrounding
    gCount,     \* grounding: number of pieces the raw text was built from
    gMaterial,  \* grounding: the material argument
    gMode,      \* grounding: the mode argument
    gResult,    \* grounding: the value enforceGrounding returned
    gStage,     \* grounding: "build" while the text is made, "done" after the call
    env,              \* process.env: PDF_URL, YOUTUBE_VIDEO_1, YOUTUBE_VIDEO_2 ("" when unset)
    notebooks,        \* ids of the notebooks that exist
    activeNotebookId, \* the process-wide active notebook
    store,            \* per notebook: sources, studyMaterial, conversationHistory, qaHistory
    nextId,           \* number of source ids handed out so far (ids are unique)
    builtFrom,        \* history: per notebook, the source list its studyMaterial was built from,
                      \* and whether its sources were cleared with none added since
    requests,         \* number of requests served so far
    lastCall,         \* history: what the last request did, met and answered
    upPc,             \* uploadToGemini: where the call stands
    upArgs,           \* uploadToGemini: its arguments filePath and mimeType
    uploadResponse,   \* uploadToGemini: what fileManager.uploadFile resolved with
    upFile,           \* uploadToGemini: its local file, what the last getFile resolved with
    getFileCalls,     \* uploadToGemini: number of getFile calls made
    upResult,         \* uploadToGemini: the value returned or the error thrown
    calls,            \* requests in flight: per request, its position and its locals
    detached,         \* per notebook, the conversationHistory arrays clearHistory replaced
    recState,         \* the recognizer: "idle", "starting", "running", "ending"
    desiredState,     \* desiredStateRef: the user wants the microphone active
    micStatus,        \* 'idle' | 'initializing' | 'active' | 'error'
    isListening,      \* the hook's isListening state
    errorMessage,     \* the hook's errorMessage state ("" for null)
    startedAgo,       \* a second or more has passed since startTimeRef was set
    restartCount,     \* restartCountRef
    restartTimeout,   \* delay of the pending restart timer, 0 without one
    quickEnds         \* history: consecutive ends less than a second after the start

gvars == <<gText, gCount, gMaterial, gMode, gResult, gStage>>

svars == <<env, notebooks, activeNotebookId, store, nextId, builtFrom, requests, lastCall>>

uvars == <<upPc, upArgs, uploadResponse, upFile, getFileCalls, upResult>>

cvars == <<calls, detached>>

mvars == <<recState, desiredState, micStatus, isListening, errorMessage, startedAgo,
          restartCount, restartTimeout, quickEnds>>

vars == <<gText, gCount, gMaterial, gMode, gResult, gStage,
          env, notebooks, activeNotebookId, store, nextId, builtFrom, requests, lastCall,
          upPc, upArgs, uploadResponse, upFile, getFileCalls, upResult,
          calls, detached,
          recState, desiredState, micStatus, isListening, errorMessage, startedAgo,
          restartCount, restartTimeout, quickEnds>>

(***************************************************************************)
(* Bounds                                                                  *)
(***************************************************************************)
MaxChunks == 3

\* sources one notebook may hold
MaxSources == 2

\* source ids handed out in one run
MaxIds == 2

\* entries one history list may hold
MaxHistory == 1

\* requests served in one run
MaxRequests == 3

(***************************************************************************)
(* Characters and JavaScript string primitives                             *)
(***************************************************************************)
CharAt(s, i) == SubSeq(s, i, i)

UpperAlphabet == "ABCDEFGHIJKLMNOPQRSTUVWXYZ"

LowerAlphabet == "abcdefghijklmnopqrstuvwxyz"

Digits == {"0", "1", "2", "3", "4", "5", "6", "7", "8", "9"}

UpperSet == {CharAt(UpperAlphabet, i) : i \in 1..26}

LowerSet == {CharAt(LowerAlphabet, i) : i \in 1..26}

\* \s of a JavaScript regular expression, and the characters trim() strips
IsSpace(c) == c \in {" ", "\n", "\t", "\r"}

\* \d
IsDigit(c) == c \in Digits

\* \w
IsWordChar(c) == c \in UpperSet \/ c \in LowerSet \/ c \in Digits \/ c = "_"

\* one character of String.prototype.toLowerCase / of a match under the i flag
LowerOf ==
    [c \in UpperSet |->
        CharAt(LowerAlphabet, CHOOSE i \in 1..26 : CharAt(UpperAlphabet, i) = c)]

LowerChar(c) == IF c \in UpperSet THEN LowerOf[c] ELSE c

\* String.prototype.toLowerCase
RECURSIVE ToLowerCase(_)
ToLowerCase(s) ==
    IF Len(s) <= 1 THEN LowerChar(s)
    ELSE LET h == Len(s) \div 2
         IN  ToLowerCase(SubSeq(s, 1, h)) \o ToLowerCase(SubSeq(s, h + 1, Len(s)))

\* String.prototype.trim
RECURSIVE TrimStart(_)
TrimStart(s) ==
    IF s # "" /\ IsSpace(CharAt(s, 1)) THEN TrimStart(SubSeq(s, 2, Len(s))) ELSE s

RECURSIVE TrimEnd(_)
TrimEnd(s) ==
    IF s # "" /\ IsSpace(CharAt(s, Len(s))) THEN TrimEnd(SubSeq(s, 1, Len(s) - 1)) ELSE s

Trim(s) == TrimEnd(TrimStart(s))

\* the literal lit (lower case) matches s at position p, under the i flag
MatchCIAt(s, p, lit) ==
    /\ p >= 1
    /\ p + Len(lit) - 1 <= Len(s)
    /\ LowerChar(CharAt(s, p)) = CharAt(lit, 1)
    /\ ToLowerCase(SubSeq(s, p, p + Len(lit) - 1)) = lit

\* the literal lit matches s at position p, case-sensitively
MatchAt(s, p, lit) ==
    /\ p >= 1
    /\ p + Len(lit) - 1 <= Len(s)
    /\ CharAt(s, p) = CharAt(lit, 1)
    /\ SubSeq(s, p, p + Len(lit) - 1) = lit

\* \b between positions p-1 and p of s (p in 1..Len(s)+1)
WordBoundary(s, p) ==
    LET before == p > 1 /\ p - 1 <= Len(s) /\ IsWordChar(CharAt(s, p - 1))
        after  == p >= 1 /\ p <= Len(s) /\ IsWordChar(CharAt(s, p))
    IN  before # after

\* the first position at or after p of s that holds no whitespace (end of a \s* run)
RECURSIVE SkipSpace(_, _)
SkipSpace(s, p) ==
    IF p <= Len(s) /\ IsSpace(CharAt(s, p)) THEN SkipSpace(s, p + 1) ELSE p

\* the first position at or after p of s that holds no digit (end of a \d* run)
RECURSIVE SkipDigits(_, _)
SkipDigits(s, p) ==
    IF p <= Len(s) /\ IsDigit(CharAt(s, p)) THEN SkipDigits(s, p + 1) ELSE p

\* String.prototype.includes for a one-character needle
IncludesChar(s, c) == \E k \in 1..Len(s) : CharAt(s, k) = c

\* s.split(' ').length: one more than the number of space characters
SplitSpaceLength(s) == Cardinality({k \in 1..Len(s) : CharAt(s, k) = " "}) + 1

\* the printable ASCII characters in code-unit order (what < compares on
\* strings): codes 32..95, then 97..126
AsciiOrder ==
    " !\"#$%&'()*+,-./0123456789:;<=>?@ABCDEFGHIJKLMNOPQRSTUVWXYZ[\\]^_abcdefghijklmnopqrstuvwxyz{|}~"

CodeOf ==
    [c \in {CharAt(AsciiOrder, i) : i \in 1..Len(AsciiOrder)} |->
        LET i == CHOOSE k \in 1..Len(AsciiOrder) : CharAt(AsciiOrder, k) = c
        IN  IF i <= 64 THEN 31 + i ELSE 32 + i]

\* a < b on JavaScript strings: code-unit order, a proper prefix first
RECURSIVE StrLessFrom(_, _, _)
StrLessFrom(a, b, i) ==
    IF i > Len(b) THEN FALSE
    ELSE IF i > Len(a) THEN TRUE
    ELSE IF CharAt(a, i) = CharAt(b, i) THEN StrLessFrom(a, b, i + 1)
    ELSE CodeOf[CharAt(a, i)] < CodeOf[CharAt(b, i)]

StrLess(a, b) == StrLessFrom(a, b, 1)

\* x inserted into the sorted sequence of strings seq, after its equals
RECURSIVE InsertSorted(_, _)
InsertSorted(seq, x) ==
    IF seq = <<>> THEN <<x>>
    ELSE IF StrLess(x, Head(seq)) THEN <<x>> \o seq
    ELSE <<Head(seq)>> \o InsertSorted(Tail(seq), x)

\* Array.prototype.sort() without a comparator, on strings
RECURSIVE SortStrings(_)
SortStrings(seq) ==
    IF seq = <<>> THEN <<>>
    ELSE InsertSorted(SortStrings(SubSeq(seq, 1, Len(seq) - 1)), seq[Len(seq)])

\* Array.prototype.join
RECURSIVE Join(_, _)
Join(seq, sep) ==
    IF seq = <<>> THEN ""
    ELSE IF Len(seq) = 1 THEN seq[1]
    ELSE seq[1] \o sep \o Join(Tail(seq), sep)

\* Array.prototype.filter(Boolean) on strings: the empty (or absent) ones go
FilterTruthy(seq) == SelectSeq(seq, LAMBDA x : x # "")

(***************************************************************************)
(* geminiService.js: the grounding policy                                  *)
(***************************************************************************)
REFUSAL == "I don't have information about this topic in the provided study material."

\* the value of material when none is given (null / undefined)
NullMaterial == [isNull |-> TRUE, sources |-> <<>>]

\* /youtube\s+video/i
ReYoutubeVideo(text) ==
    \E p \in 1..Len(text) :
        /\ MatchCIAt(text, p, "youtube")
        /\ SkipSpace(text, p + 7) > p + 7
        /\ MatchCIAt(text, SkipSpace(text, p + 7), "video")

\* /\byoutube\b/i
ReYoutubeWord(text) ==
    \E p \in 1..Len(text) :
        /\ MatchCIAt(text, p, "youtube")
        /\ WordBoundary(text, p)
        /\ WordBoundary(text, p + 7)

\* \d{1,2}:\d{2} matched from p: the positions just after each possible match
ClockEnds(text, p) ==
    {p + m + 3 : m \in {n \in 1..2 :
        /\ p + n + 2 <= Len(text)
        /\ SkipDigits(text, p) >= p + n
        /\ CharAt(text, p + n) = ":"
        /\ SkipDigits(text, p + n + 1) >= p + n + 3}}

\* (?:\s*-\s*\d{1,2}:\d{2}) matched from e: the positions just after each match
RangeEnds(text, e) ==
    LET h == SkipSpace(text, e)
    IN  IF h <= Len(text) /\ CharAt(text, h) = "-"
        THEN ClockEnds(text, SkipSpace(text, h + 1))
        ELSE {}

\* /\b(?:\d{1,2}):\d{2}(?:\s*-\s*\d{1,2}:\d{2})?\b/
ReTimestamp(text) ==
    \E p \in 1..Len(text) :
        /\ IsDigit(CharAt(text, p))
        /\ WordBoundary(text, p)
        /\ \E e \in ClockEnds(text, p) :
            \/ WordBoundary(text, e)
            \/ \E f \in RangeEnds(text, e) : WordBoundary(text, f)

citesVideo(text) ==
    ReYoutubeVideo(text) \/ ReTimestamp(text) \/ ReYoutubeWord(text)

\* /page\s+\d+\s*\(physical\)/i, applied to the lower-cased text t
RePagePhysical(t) ==
    \E p \in 1..Len(t) :
        /\ MatchCIAt(t, p, "page")
        /\ LET d == SkipSpace(t, p + 4)
               e == SkipDigits(t, d)
           IN  /\ d > p + 4
               /\ e > d
               /\ MatchCIAt(t, SkipSpace(t, e), "(physical)")

\* /page\s+\d+\s*\(physical\)/ tried on the raw text without the i flag
citesPageCaseSensitive(text) ==
    \E p \in 1..Len(text) :
        /\ MatchAt(text, p, "page")
        /\ LET d == SkipSpace(text, p + 4)
               e == SkipDigits(text, d)
           IN  /\ d > p + 4
               /\ e > d
               /\ MatchAt(text, SkipSpace(text, e), "(physical)")

citesPage(text) == RePagePhysical(ToLowerCase(text))

\* new RegExp(safe, 'i').test(text), safe being the name with every regular
\* expression metacharacter escaped: a case-insensitive search for the literal name
ReEscapedName(name, text) ==
    LET lit == ToLowerCase(name)
    IN  \E p \in 1..Len(text) : MatchCIAt(text, p, lit)

citesNamed(text, material) ==
    IF material.isNull THEN FALSE
    ELSE \E i \in 1..Len(material.sources) :
            /\ material.sources[i] # ""
            /\ ReEscapedName(material.sources[i], text)

textCitesMaterial(text, material) ==
    citesVideo(text) \/ citesPage(text) \/ citesNamed(text, material)

\* /^(hello|hi|hey|good morning|...|bye|goodbye)/i
GreetingWords ==
    {"hello", "hi", "hey", "good morning", "good afternoon", "good evening",
     "nice to meet you", "thank you", "thanks", "bye", "goodbye"}

ReGreeting(s) == \E g \in GreetingWords : MatchCIAt(s, 1, g)

\* dialogue mode treated like Q&A: an uncited reply is replaced by the refusal
enforceGroundingDialogueStrict(text, material) ==
    IF textCitesMaterial(text, material)
    THEN [answer |-> Trim(text), isGrounded |-> TRUE]
    ELSE [answer |-> REFUSAL, isGrounded |-> FALSE]

enforceGroundingDialogue(text, material) ==
    LET isGreeting   == ReGreeting(Trim(text))
        isShort      == SplitSpaceLength(Trim(text)) < 15
    IN  IF isGreeting \/ (isShort /\ ~IncludesChar(text, "?"))
        THEN [answer |-> Trim(text), isGrounded |-> TRUE]
        ELSE [answer |-> Trim(text), isGrounded |-> textCitesMaterial(text, material)]

\* Q&A mode that only flags an uncited answer instead of replacing it
enforceGroundingQAFlagOnly(text, material) ==
    [answer |-> Trim(text),
     isGrounded |-> text # "" /\ Trim(text) # REFUSAL /\ textCitesMaterial(text, material)]

enforceGroundingQA(text, material) ==
    LET grounded == text # "" /\ Trim(text) # REFUSAL /\ textCitesMaterial(text, material)
    IN  IF ~grounded
        THEN [answer |-> REFUSAL, isGrounded |-> FALSE]
        ELSE [answer |-> Trim(text), isGrounded |-> TRUE]

enforceGrounding(text, material, mode) ==
    IF mode = "dialogue"
    THEN enforceGroundingDialogue(text, material)
    ELSE enforceGroundingQA(text, material)

(***************************************************************************)
(* ingestion.js: the ingestion pipeline                                    *)
(*                                                                         *)
(* A source is a record [id, type, name, url, content, text, fileUri,      *)
(* mimeType]; a field the JavaScript object does not carry is "".  A       *)
(* prompt fragment is a record: a remote file (kind "fileData") or a text  *)
(* built from one of the templates of the source, kept as the template's   *)
(* tag and the values interpolated into it.                                *)
(***************************************************************************)
\* the URLs the sources and the environment of a run carry
DriveUrl == "https://drive.google.com/file/d/1AbCdEfGhIjKlMnOpQrStUvWxYz/view"

YoutubeUrl == "https://youtu.be/abc123?t=5"

YoutubeWatchUrl == "https://www.youtube.com/watch?list=PL1&v=xyz789"

\* a video URL of none of the shapes extractVideoId knows
OtherVideoUrl == "https://vimeo.com/76979871"

Urls == {DriveUrl, YoutubeUrl, YoutubeWatchUrl, OtherVideoUrl}

\* [-\w] of extractDriveFileId
IsIdChar(c) == IsWordChar(c) \/ c = "-"

RECURSIVE SkipIdChars(_, _)
SkipIdChars(s, p) ==
    IF p <= Len(s) /\ IsIdChar(CharAt(s, p)) THEN SkipIdChars(s, p + 1) ELSE p

DriveIdMinLength == 25

\* url.match(/[-\w]{25,}/): the leftmost run of at least 25 id characters, "" for null
DriveFileIdMatch(url) ==
    LET starts == {p \in 1..Len(url) :
                     /\ IsIdChar(CharAt(url, p))
                     /\ (p = 1 \/ ~IsIdChar(CharAt(url, p - 1)))
                     /\ SkipIdChars(url, p) - p >= DriveIdMinLength}
    IN  IF starts = {} THEN ""
        ELSE LET p == CHOOSE q \in starts : \A r \in starts : q <= r
             IN  SubSeq(url, p, SkipIdChars(url, p) - 1)

\* extractDriveFileId of each of Urls, computed once
DriveFileIds == [u \in Urls |-> DriveFileIdMatch(u)]

\* extractDriveFileId
extractDriveFileId(url) ==
    IF url \in Urls THEN DriveFileIds[url] ELSE DriveFileIdMatch(url)

\* [^&\n?#] of extractVideoId
IsVideoIdChar(c) == c \notin {"&", "\n", "?", "#"}

RECURSIVE SkipVideoIdChars(_, _)
SkipVideoIdChars(s, p) ==
    IF p <= Len(s) /\ IsVideoIdChar(CharAt(s, p)) THEN SkipVideoIdChars(s, p + 1) ELSE p

\* the positions just after a match of lit in url
EndsOf(url, lit) == {p + Len(lit) : p \in {q \in 1..Len(url) : MatchAt(url, q, lit)}}

\* the position just after the leftmost match of one of the three prefixes of
\* the first pattern that a video id follows; 0 when there is none
FirstPatternEnd(url) ==
    LET Prefixes == {"youtube.com/watch?v=", "youtu.be/", "youtube.com/embed/"}
        starts == {q \in 1..Len(url) : \E l \in Prefixes :
                     MatchAt(url, q, l) /\ SkipVideoIdChars(url, q + Len(l)) > q + Len(l)}
    IN  IF starts = {} THEN 0
        ELSE LET q == CHOOSE x \in starts : \A y \in starts : x <= y
                 l == CHOOSE x \in Prefixes :
                        MatchAt(url, q, x) /\ SkipVideoIdChars(url, q + Len(x)) > q + Len(x)
             IN  q + Len(l)

Least(S) == CHOOSE x \in S : \A y \in S : x <= y

Greatest(S) == CHOOSE x \in S : \A y \in S : x >= y

\* url.match over the two patterns in turn, "" for null
VideoIdMatch(url) ==
    LET p1 == IF FirstPatternEnd(url) = 0 THEN {} ELSE {FirstPatternEnd(url)}
        w  == EndsOf(url, "youtube.com/watch?")
        p2 == {e \in EndsOf(url, "v=") :
                 /\ w # {}
                 /\ e - 2 >= Least(w)
                 /\ ~IncludesChar(SubSeq(url, Least(w), e - 3), "\n")
                 /\ SkipVideoIdChars(url, e) > e}
    IN  IF p1 # {} THEN SubSeq(url, Least(p1), SkipVideoIdChars(url, Least(p1)) - 1)
        ELSE IF p2 # {} THEN SubSeq(url, Greatest(p2), SkipVideoIdChars(url, Greatest(p2)) - 1)
        ELSE ""

\* extractVideoId of each of Urls, computed once
VideoIds == [u \in Urls |-> VideoIdMatch(u)]

\* extractVideoId
extractVideoId(url) ==
    IF url \in Urls THEN VideoIds[url] ELSE VideoIdMatch(url)

\* what the Drive download of one source meets: the file with a readable page
\* count, the file with a PDF pdf-parse cannot read, or a failed request
DriveOutcomes == {"pages", "nopages", "fail"}

PhysicalPages == 12

\* processDriveFile(driveUrl)
processDriveFile(driveUrl, outcome) ==
    LET fileId == extractDriveFileId(driveUrl)
    IN  IF fileId = ""
        THEN [threw |-> TRUE, message |-> "Failed to process Drive file: " \o "Invalid Google Drive URL"]
        ELSE IF outcome = "fail"
        THEN [threw |-> TRUE, message |-> "Failed to process Drive file: " \o "Network Error"]
        ELSE [threw |-> FALSE,
              fileUri |-> "https://generativelanguage.googleapis.com/v1beta/files/" \o fileId,
              mimeType |-> "application/pdf",
              name |-> "Google Drive PDF - " \o fileId,
              physicalPages |-> IF outcome = "pages" THEN PhysicalPages ELSE 0]

\* processDriveFile over the URLs of the model
ProcessedDriveFiles ==
    [u \in Urls |-> [o \in DriveOutcomes |-> processDriveFile(u, o)]]

\* decimal digits of a small natural number (template interpolation)
NatToString(n) ==
    LET d(k) == CharAt("0123456789", k + 1)
    IN  IF n < 10 THEN d(n) ELSE d(n \div 10) \o d(n % 10)

FileDataPart(mimeType, fileUri) ==
    [kind |-> "fileData", mimeType |-> mimeType, fileUri |-> fileUri]

\* sourceName of the loop body: source.name, or "Source <index>" without one
SourceName(source, index) ==
    IF source.name # "" THEN source.name ELSE "Source " \o NatToString(index)

\* the drive branch with a catch block that pushes no notice
DriveBranchSilent(source, sourceName, drive) ==
    IF drive.threw
    THEN [parts |-> <<>>, infos |-> <<>>]
    ELSE [parts |->
            (IF drive.physicalPages # 0
             THEN <<[kind |-> "text", tag |-> "SOURCE META", name |-> drive.name,
                     physicalPages |-> drive.physicalPages]>>
             ELSE <<>>)
            \o <<FileDataPart(drive.mimeType, drive.fileUri)>>,
          infos |-> <<[name |-> drive.name, type |-> source.type]>>]

\* the drive branch with the page-count notice pushed after the file fragment
DriveBranchNoticeLast(source, sourceName, drive) ==
    IF drive.threw
    THEN [parts |-> <<[kind |-> "text", tag |-> "System Error", name |-> sourceName,
                       message |-> drive.message]>>,
          infos |-> <<>>]
    ELSE [parts |->
            <<FileDataPart(drive.mimeType, drive.fileUri)>>
            \o (IF drive.physicalPages # 0
                THEN <<[kind |-> "text", tag |-> "SOURCE META", name |-> drive.name,
                        physicalPages |-> drive.physicalPages]>>
                ELSE <<>>),
          infos |-> <<[name |-> drive.name, type |-> source.type]>>]

\* the drive branch of the loop body, given what processDriveFile returned or threw
DriveBranch(source, sourceName, drive) ==
    IF drive.threw
    THEN [parts |-> <<[kind |-> "text", tag |-> "System Error", name |-> sourceName,
                       message |-> drive.message]>>,
          infos |-> <<>>]
    ELSE [parts |->
            (IF drive.physicalPages # 0
             THEN <<[kind |-> "text", tag |-> "SOURCE META", name |-> drive.name,
                     physicalPages |-> drive.physicalPages]>>
             ELSE <<>>)
            \o <<FileDataPart(drive.mimeType, drive.fileUri)>>,
          infos |-> <<[name |-> drive.name, type |-> source.type]>>]

\* the youtube branch of the loop body, given what extractVideoId returned
YoutubeBranch(source, sourceName, videoId) ==
    [parts |-> <<[kind |-> "text", tag |-> "SOURCE", name |-> sourceName,
                  label |-> "YouTube Video", url |-> source.url,
                  videoId |-> IF videoId = "" THEN "null" ELSE videoId]>>,
     infos |-> <<[name |-> sourceName, type |-> source.type]>>]

\* the file and text branches of the loop body
InlineBranch(source, sourceName) ==
    IF source.type = "file"
    THEN IF source.fileUri # ""
         THEN [parts |-> <<FileDataPart(IF source.mimeType # "" THEN source.mimeType
                                        ELSE "application/pdf", source.fileUri)>>,
               infos |-> <<[name |-> sourceName, type |-> source.type]>>]
         ELSE IF source.text # ""
         THEN [parts |-> <<[kind |-> "text", tag |-> "SOURCE", name |-> sourceName,
                            label |-> "File", body |-> source.text]>>,
               infos |-> <<[name |-> sourceName, type |-> source.type]>>]
         ELSE [parts |-> <<>>, infos |-> <<>>]
    ELSE IF source.type = "text"
    THEN [parts |-> <<[kind |-> "text", tag |-> "SOURCE", name |-> sourceName,
                       label |-> "Text", body |-> source.content]>>,
          infos |-> <<[name |-> sourceName, type |-> source.type]>>]
    ELSE [parts |-> <<>>, infos |-> <<>>]

\* one iteration of the for loop of ingestStudyMaterials: the fragments it
\* pushes onto processedParts, in order, and the info it pushes (if any)
ProcessSource(source, index, outcome) ==
    IF source.type = "drive"
    THEN DriveBranch(source, SourceName(source, index), ProcessedDriveFiles[source.url][outcome])
    ELSE IF source.type = "youtube"
    THEN YoutubeBranch(source, SourceName(source, index), extractVideoId(source.url))
    ELSE InlineBranch(source, SourceName(source, index))

\* the two pushes with the info put in front (unshift) instead of appended
PushedInFront(before, this) ==
    [parts |-> before.parts \o this.parts, infos |-> this.infos \o before.infos]

\* processedParts and sourceInfo after one more iteration of the loop
Pushed(before, this) ==
    [parts |-> before.parts \o this.parts, infos |-> before.infos \o this.infos]

\* the for loop of ingestStudyMaterials over sources[1..n]
RECURSIVE IngestLoop(_, _, _)
IngestLoop(sources, outcomes, n) ==
    IF n = 0 THEN [parts |-> <<>>, infos |-> <<>>]
    ELSE Pushed(IngestLoop(sources, outcomes, n - 1),
                ProcessSource(sources[n], n, outcomes[n]))

NoField == ""

EnvSource(type, url, name) ==
    [id |-> NoField, type |-> type, name |-> name, url |-> url, content |-> NoField,
     text |-> NoField, fileUri |-> NoField, mimeType |-> NoField]

\* the fallback list ingestStudyMaterials builds from process.environment
EnvDefaultSources(environment) ==
    (IF environment.PDF_URL # "" THEN <<EnvSource("drive", environment.PDF_URL, "Economics Textbook")>> ELSE <<>>)
    \o (IF environment.YOUTUBE_VIDEO_1 # ""
        THEN <<EnvSource("youtube", environment.YOUTUBE_VIDEO_1, "Oligopoly - Kinked Demand")>> ELSE <<>>)
    \o (IF environment.YOUTUBE_VIDEO_2 # ""
        THEN <<EnvSource("youtube", environment.YOUTUBE_VIDEO_2, "Oligopoly - Game Theory")>> ELSE <<>>)

\* the list ingestStudyMaterials works on: its argument, or the fallback
\* (sources = <<>> stands for a null or empty argument)
IngestInput(sources, defaultActive, environment) ==
    IF sources # <<>> THEN sources
    ELSE IF ~defaultActive THEN <<>>
    ELSE EnvDefaultSources(environment)

\* the returned object with the new fragments appended to those of the material
\* stored before
IngestedMaterialAppending(loop) ==
    [threw |-> FALSE, isNull |-> FALSE,
     contextParts |-> IF store[activeNotebookId].studyMaterial.isNull THEN loop.parts
                      ELSE store[activeNotebookId].studyMaterial.contextParts \o loop.parts,
     stats |-> [sourceCount |-> Len(loop.infos), sources |-> loop.infos,
                isMultimodal |-> TRUE],
     sources |-> [i \in 1..Len(loop.infos) |-> loop.infos[i].name]]

\* the object ingestStudyMaterials returns once the loop is over
IngestedMaterial(loop) ==
    [threw |-> FALSE, isNull |-> FALSE,
     contextParts |-> loop.parts,
     stats |-> [sourceCount |-> Len(loop.infos), sources |-> loop.infos,
                isMultimodal |-> TRUE],
     sources |-> [i \in 1..Len(loop.infos) |-> loop.infos[i].name]]

\* ingestStudyMaterials without the isDefaultActive test: every notebook falls
\* back to the environment defaults
IngestOfAnyNotebook(sources, defaultActive, input, outcomes) ==
    IF (IF sources # <<>> THEN sources ELSE EnvDefaultSources(env)) = <<>>
    THEN [threw |-> TRUE, message |-> "No sources provided", statusCode |-> 0]
    ELSE IngestedMaterial(IngestLoop(IF sources # <<>> THEN sources ELSE EnvDefaultSources(env),
                                     outcomes,
                                     Len(IF sources # <<>> THEN sources ELSE EnvDefaultSources(env))))

\* ingestStudyMaterials, given the list it works on
IngestOf(sources, defaultActive, input, outcomes) ==
    IF sources = <<>> /\ ~defaultActive
    THEN [threw |-> TRUE, message |-> "No sources provided for active notebook",
          statusCode |-> 0]
    ELSE IF input = <<>>
    THEN [threw |-> TRUE, message |-> "No sources provided", statusCode |-> 0]
    ELSE IngestedMaterial(IngestLoop(input, outcomes, Len(input)))

\* ingestStudyMaterials(sources): the material returned, or the error thrown
ingestStudyMaterials(sources, defaultActive, environment, outcomes) ==
    IngestOf(sources, defaultActive, IngestInput(sources, defaultActive, environment), outcomes)

(***************************************************************************)
(* storage.js: the in-memory store.  The methods act on the active         *)
(* notebook; nb is its record.                                             *)
(***************************************************************************)
DefaultNotebookId == "default"

NotebookIds == {DefaultNotebookId, "nb1"}

\* the name the default notebook is created with, the name the client gives a new
\* notebook, and the names it may rename one to
DefaultNotebookName == "Default Notebook"

NewNotebookName == "New Notebook"

NotebookNames == {"Macro", "Micro"}

\* a notebook id no notebook has
UnknownNotebookId == "nb9"

EmptyNotebook ==
    [name |-> "", sources |-> <<>>, studyMaterial |-> NullMaterial,
     conversationHistory |-> <<>>, qaHistory |-> <<>>, suggestedQuestions |-> <<>>]

\* the store at process start: the default notebook alone
InitialStore ==
    [id \in NotebookIds |->
        IF id = DefaultNotebookId THEN [EmptyNotebook EXCEPT !.name = DefaultNotebookName]
        ELSE EmptyNotebook]

\* Storage.setStudyMaterial
setStudyMaterial(nb, material) ==
    [nb EXCEPT !.studyMaterial =
        [isNull |-> FALSE, context |-> NoField, contextParts |-> material.contextParts,
         sources |-> material.sources, stats |-> material.stats]]

\* Storage.clearStudyMaterial
clearStudyMaterial(nb) == [nb EXCEPT !.studyMaterial = NullMaterial]

\* Storage.addSource: the new source, appended
NewSource(id, data) ==
    [id |-> id, type |-> data.type, name |-> data.name, url |-> data.url,
     content |-> data.content, text |-> data.text, fileUri |-> data.fileUri,
     mimeType |-> data.mimeType]

addSource(nb, id, data) == [nb EXCEPT !.sources = Append(@, NewSource(id, data))]

\* Storage.removeSource: findIndex + splice
removeSource(nb, id) ==
    [nb EXCEPT !.sources = SelectSeq(@, LAMBDA x : x.id # id)]

\* a findIndex that finds every id
HasSourceAlways(nb, id) == TRUE

\* the findIndex test of Storage.removeSource
HasSource(nb, id) == \E i \in 1..Len(nb.sources) : nb.sources[i].id = id

\* Storage.clearSources
clearSources(nb) == [nb EXCEPT !.sources = <<>>]

\* Storage.addQAEntry
addQAEntry(nb, entry) == [nb EXCEPT !.qaHistory = Append(@, entry)]

\* Storage.addToHistory
addToHistory(nb, entry) == [nb EXCEPT !.conversationHistory = Append(@, entry)]

\* Storage.clearHistory
clearHistory(nb) == [nb EXCEPT !.conversationHistory = <<>>, !.qaHistory = <<>>]

\* Storage.getSuggestedQuestions / Storage.setSuggestedQuestions
getSuggestedQuestions(nb) == nb.suggestedQuestions

setSuggestedQuestions(nb, questions) == [nb EXCEPT !.suggestedQuestions = questions]

\* Storage.isDefaultActive
isDefaultActive == activeNotebookId = DefaultNotebookId

(***************************************************************************)
(* geminiService.js: requireMaterial                                       *)
(***************************************************************************)
\* String(o) of a plain object, as sort() and join() apply it
ObjectToString(o) == "[object Object]"

\* the signature closure of requireMaterial
signature(sources) ==
    Join(SortStrings(
            [i \in 1..Len(sources) |->
                Join(FilterTruthy(<<sources[i].type, sources[i].name, sources[i].url,
                                    sources[i].fileUri>>), ":")]), "|")

\* material?.stats?.sources || material?.sources || []: an array is truthy,
\* so a stored material always yields its stats.sources, a list of objects
materialSourceNames(material) ==
    IF material.isNull THEN <<>>
    ELSE [i \in 1..Len(material.stats.sources) |-> ObjectToString(material.stats.sources[i])]

sigMaterial(material) == Join(SortStrings(materialSourceNames(material)), "|")

\* a stored material always carries the contextParts array, so the second
\* disjunct of the source (no context and no contextParts) is never true of it
needsIngest(material, activeSources) ==
    \/ material.isNull
    \/ (activeSources # <<>> /\ signature(activeSources) # sigMaterial(material))

\* the ingesting branch of requireMaterial, given what ingestStudyMaterials
\* returned or threw (m) and the argument it was called with (arg)
Reingested(nb, arg, m) ==
    IF m.threw
    THEN [threw |-> TRUE, ingest |-> arg, statusCode |-> m.statusCode,
          message |-> m.message, nb |-> nb]
    ELSE [threw |-> FALSE, ingest |-> arg, material |-> m, nb |-> setStudyMaterial(nb, m)]

\* requireMaterial(): what it returns or throws, and the ingestion it ran
requireMaterial(nb, defaultActive, environment, outcomes) ==
    IF ~needsIngest(nb.studyMaterial, nb.sources)
    THEN [threw |-> FALSE, ingest |-> "none", material |-> nb.studyMaterial, nb |-> nb]
    ELSE IF nb.sources # <<>>
    THEN Reingested(nb, "sources",
                    ingestStudyMaterials(nb.sources, defaultActive, environment, outcomes))
    ELSE IF defaultActive
    THEN Reingested(nb, "null", ingestStudyMaterials(<<>>, defaultActive, environment, outcomes))
    ELSE [threw |-> TRUE, ingest |-> "none", statusCode |-> 400,
          message |-> "Study material not ingested yet", nb |-> nb]

(***************************************************************************)
(* JSON.parse, as far as it decides whether a reply of the model is JSON:  *)
(* objects, arrays, strings, unsigned integers and the three literals      *)
(***************************************************************************)
\* String.prototype.indexOf / lastIndexOf for one character: 0 stands for -1
IndexOfChar(s, c) ==
    IF IncludesChar(s, c) THEN CHOOSE k \in 1..Len(s) :
            CharAt(s, k) = c /\ \A j \in 1..(k - 1) : CharAt(s, j) # c
    ELSE 0

LastIndexOfChar(s, c) ==
    IF IncludesChar(s, c) THEN CHOOSE k \in 1..Len(s) :
            CharAt(s, k) = c /\ \A j \in (k + 1)..Len(s) : CharAt(s, j) # c
    ELSE 0

\* the position after the string literal that opens at q, 0 when it never closes
RECURSIVE JsonStringClose(_, _)
JsonStringClose(s, p) ==
    IF p > Len(s) THEN 0
    ELSE IF CharAt(s, p) = "\"" THEN p + 1
    ELSE IF CharAt(s, p) = "\\" THEN JsonStringClose(s, p + 2)
    ELSE JsonStringClose(s, p + 1)

JsonStringEnd(s, q) ==
    IF q <= Len(s) /\ CharAt(s, q) = "\"" THEN JsonStringClose(s, q + 1) ELSE 0

RECURSIVE JsonValueAt(_, _), JsonMembersEnd(_, _), JsonElementsEnd(_, _)

\* after a member: a comma and more members, or the closing brace
JsonAfterMemberAt(s, q) ==
    IF q > Len(s) THEN 0
    ELSE IF CharAt(s, q) = "," THEN JsonMembersEnd(s, q + 1)
    ELSE IF CharAt(s, q) = "}" THEN q + 1
    ELSE 0

JsonAfterMember(s, v) == IF v = 0 THEN 0 ELSE JsonAfterMemberAt(s, SkipSpace(s, v))

JsonAfterColon(s, c) ==
    IF c <= Len(s) /\ CharAt(s, c) = ":"
    THEN JsonAfterMember(s, JsonValueAt(s, SkipSpace(s, c + 1)))
    ELSE 0

JsonAfterKey(s, k) == IF k = 0 THEN 0 ELSE JsonAfterColon(s, SkipSpace(s, k))

\* "key": value members from p up to and including the closing brace
JsonMembersEnd(s, p) == JsonAfterKey(s, JsonStringEnd(s, SkipSpace(s, p)))

\* after an element: a comma and more elements, or the closing bracket
JsonAfterElementAt(s, q) ==
    IF q > Len(s) THEN 0
    ELSE IF CharAt(s, q) = "," THEN JsonElementsEnd(s, q + 1)
    ELSE IF CharAt(s, q) = "]" THEN q + 1
    ELSE 0

JsonAfterElement(s, v) == IF v = 0 THEN 0 ELSE JsonAfterElementAt(s, SkipSpace(s, v))

\* elements from p up to and including the closing bracket
JsonElementsEnd(s, p) == JsonAfterElement(s, JsonValueAt(s, SkipSpace(s, p)))

JsonEmptyOr(s, q, close, rest) ==
    IF q <= Len(s) /\ CharAt(s, q) = close THEN q + 1 ELSE rest

\* the position after the JSON value that starts at q, 0 when there is none
JsonValueAt(s, q) ==
    IF q > Len(s) THEN 0
    ELSE IF CharAt(s, q) = "\"" THEN JsonStringEnd(s, q)
    ELSE IF CharAt(s, q) = "{"
    THEN JsonEmptyOr(s, SkipSpace(s, q + 1), "}", JsonMembersEnd(s, q + 1))
    ELSE IF CharAt(s, q) = "["
    THEN JsonEmptyOr(s, SkipSpace(s, q + 1), "]", JsonElementsEnd(s, q + 1))
    ELSE IF IsDigit(CharAt(s, q)) THEN SkipDigits(s, q)
    ELSE IF MatchAt(s, q, "true") \/ MatchAt(s, q, "null") THEN q + 4
    ELSE IF MatchAt(s, q, "false") THEN q + 5
    ELSE 0

JsonEndsAt(s, e) == e # 0 /\ SkipSpace(s, e) = Len(s) + 1

\* JSON.parse(text) returns rather than throws
JsonParses(text) == JsonEndsAt(text, JsonValueAt(text, SkipSpace(text, 1)))

(***************************************************************************)
(* geminiService.js: generateSummary                                       *)
(***************************************************************************)
ExtractBetween(cleaned, start, end) ==
    IF start # 0 /\ end # 0 THEN SubSeq(cleaned, start, end) ELSE cleaned

\* extractJson of generateSummary, for a text that holds no code fence: the
\* two replace calls leave it alone, then the text from the first opening brace
\* to the last closing one is taken
extractJson(text) ==
    ExtractBetween(Trim(text), IndexOfChar(Trim(text), "{"), LastIndexOfChar(Trim(text), "}"))

\* texts the model may answer a summary request with
SummaryReplies ==
    {"{\"overview\": \"See ECON NOTE.\"}",
     "Sure! {\"overview\": \"Supply\", \"concepts\": []} I hope it helps.",
     " Here is the summary: supply {rises}. "}

\* per reply: raw = text().trim(), jsonText = extractJson(raw), and whether
\* JSON.parse(jsonText) returns
SummaryReply ==
    [t \in SummaryReplies |->
        [raw |-> Trim(t), jsonText |-> extractJson(Trim(t)),
         parses |-> JsonParses(extractJson(Trim(t)))]]

\* the model call throws (network, quota)
LlmThrows == "throws"

\* what the retry may be answered with; when the first reply is JSON or the
\* first call throws no retry is made, and the one value stands for that
RetryReplies(first) ==
    IF first # LlmThrows /\ ~SummaryReply[first].parses
    THEN SummaryReplies \cup {LlmThrows}
    ELSE {LlmThrows}

\* the error-shaped summary of the second catch block
FallbackSummary(raw) ==
    [overview |-> "Could not parse summary. Please try again.",
     concepts |-> <<"Error parsing concepts">>,
     examTips |-> <<"Error parsing tips">>,
     raw_debug |-> raw]

\* no summary object / the object JSON.parse made of jsonText
NoSummary == [json |-> ""]

ParsedSummary(jsonText) == [json |-> jsonText]

\* generateSummary after requireMaterial with the second parse failure thrown on
SummaryRetryThrows(first, second) ==
    IF first = LlmThrows
    THEN [threw |-> TRUE, llmCalls |-> 1, summary |-> NoSummary, raw |-> "", retryRaw |-> ""]
    ELSE IF SummaryReply[first].parses
    THEN [threw |-> FALSE, llmCalls |-> 1, raw |-> SummaryReply[first].raw, retryRaw |-> "",
          summary |-> ParsedSummary(SummaryReply[first].jsonText)]
    ELSE IF second = LlmThrows
    THEN [threw |-> TRUE, llmCalls |-> 2, raw |-> SummaryReply[first].raw, retryRaw |-> "",
          summary |-> NoSummary]
    ELSE IF SummaryReply[second].parses
    THEN [threw |-> FALSE, llmCalls |-> 2, raw |-> SummaryReply[first].raw,
          retryRaw |-> SummaryReply[second].raw,
          summary |-> ParsedSummary(SummaryReply[second].jsonText)]
    ELSE [threw |-> TRUE, llmCalls |-> 2, raw |-> SummaryReply[first].raw,
          retryRaw |-> SummaryReply[second].raw, summary |-> NoSummary]

\* generateSummary after requireMaterial, given what the first call and the
\* retry (if it comes to one) answer: the number of model calls made, the two
\* raw texts, and the summary returned or the error thrown. The inner try
\* block holds the retry call and its parse, so either failing ends in the
\* fallback summary.
SummaryFromReplies(first, second) ==
    IF first = LlmThrows
    THEN [threw |-> TRUE, llmCalls |-> 1, summary |-> NoSummary, raw |-> "", retryRaw |-> ""]
    ELSE IF SummaryReply[first].parses
    THEN [threw |-> FALSE, llmCalls |-> 1, raw |-> SummaryReply[first].raw, retryRaw |-> "",
          summary |-> ParsedSummary(SummaryReply[first].jsonText)]
    ELSE IF second = LlmThrows
    THEN [threw |-> FALSE, llmCalls |-> 2, raw |-> SummaryReply[first].raw, retryRaw |-> "",
          summary |-> FallbackSummary(SummaryReply[first].raw)]
    ELSE IF SummaryReply[second].parses
    THEN [threw |-> FALSE, llmCalls |-> 2, raw |-> SummaryReply[first].raw,
          retryRaw |-> SummaryReply[second].raw,
          summary |-> ParsedSummary(SummaryReply[second].jsonText)]
    ELSE [threw |-> FALSE, llmCalls |-> 2, raw |-> SummaryReply[first].raw,
          retryRaw |-> SummaryReply[second].raw,
          summary |-> FallbackSummary(SummaryReply[first].raw)]

(***************************************************************************)
(* geminiService.js: generateSuggestedQuestions                            *)
(***************************************************************************)
\* the string elements of the JSON array whose first element starts at or
\* after p (typeof q === 'string'; the replies hold no escape sequence)
RECURSIVE JsonArrayStrings(_, _)
JsonStringItem(s, q, e) ==
    IF CharAt(s, q) = "\"" THEN <<SubSeq(s, q + 1, e - 2)>> ELSE <<>>

JsonItemsFrom(s, q, e) ==
    JsonStringItem(s, q, e) \o
        (IF CharAt(s, SkipSpace(s, e)) = "," THEN JsonArrayStrings(s, SkipSpace(s, e) + 1)
         ELSE <<>>)

JsonArrayFrom(s, q) ==
    IF CharAt(s, q) = "]" THEN <<>> ELSE JsonItemsFrom(s, q, JsonValueAt(s, q))

JsonArrayStrings(s, p) == JsonArrayFrom(s, SkipSpace(s, p))

\* JSON.parse(raw) with its catch, Array.isArray, and the typeof filter
ParsedQuestions(raw) ==
    IF ~JsonParses(raw) THEN <<"Review the summary of the material.">>
    ELSE IF CharAt(raw, 1) = "[" THEN JsonArrayStrings(raw, 2)
    ELSE <<>>

\* q.trim().length > 5, then slice(0, 7)
Slice(seq, n) == IF Len(seq) > n THEN SubSeq(seq, 1, n) ELSE seq

ValidQuestions(questions) == Slice(SelectSeq(questions, LAMBDA q : Len(Trim(q)) > 5), 7)

\* texts the model may answer a suggest request with
SuggestReplies ==
    {" [\"What defines an oligopoly?\", \"Why?\", 7, [\"Is a nested question kept?\"]] ",
     "[]",
     "I could not find any questions."}

\* per reply, the validated question list
SuggestReply == [t \in SuggestReplies |-> ValidQuestions(ParsedQuestions(Trim(t)))]

\* messages of the errors model.generateContent may reject with
SuggestErrors == {"fetch failed", "429 quota exceeded"}

NoMaterialQuestions ==
    <<"Suggested questions are not available because no study material has been ingested.">>

\* the question lists of the two fallback answers of the route
NotIngestedQuestions ==
    <<"Upload study material to get started", "What topics would you like to learn?",
      "Need help with anything?">>

GenericQuestions ==
    <<"What are the main concepts?", "Can you explain this topic?",
      "What should I focus on?", "Help me understand this better">>

\* err.message?.includes('quota') || err.message?.includes('rate')
Includes(s, lit) == \E p \in 1..(Len(s) - Len(lit) + 1) : MatchAt(s, p, lit)

IsQuotaError(message) == Includes(message, "quota") \/ Includes(message, "rate")

(***************************************************************************)
(* routes/api.js and the orchestrators of geminiService.js: one action per *)
(* request handler                                                         *)
(***************************************************************************)
NoEnv == [PDF_URL |-> "", YOUTUBE_VIDEO_1 |-> "", YOUTUBE_VIDEO_2 |-> ""]

\* the environments a run may start in
EnvChoices ==
    {NoEnv,
     [NoEnv EXCEPT !.YOUTUBE_VIDEO_2 = OtherVideoUrl],
     [PDF_URL |-> DriveUrl, YOUTUBE_VIDEO_1 |-> YoutubeUrl, YOUTUBE_VIDEO_2 |-> YoutubeWatchUrl]}

\* request bodies of POST /sources/add
AddBodies ==
    {[type |-> "text", url |-> "", content |-> "Supply rises when price rises.", name |-> "Econ Note"],
     [type |-> "drive", url |-> DriveUrl, content |-> "", name |-> "Textbook"],
     [type |-> "youtube", url |-> YoutubeUrl, content |-> "", name |-> ""],
     [type |-> "youtube", url |-> "", content |-> "", name |-> "Lecture"]}

\* files of POST /upload: a plain-text file and a PDF
UploadFiles ==
    {[originalname |-> "notes.txt", mimetype |-> "text/plain", body |-> "Demand falls."],
     [originalname |-> "slides.pdf", mimetype |-> "application/pdf", body |-> ""]}

\* raw texts the model may answer with (already free of other citation markers)
RawAnswers == {"", "See ECON NOTE.", "See the TEXTBOOK.", "See Notes.TXT and YOUTUBE SOURCE."}

\* result.response.text().trim(), per raw answer
TrimmedAnswer == [raw \in RawAnswers |-> Trim(raw)]

\* what the Drive download meets for each source of the list: "none" for a
\* source that is not fetched from Drive
OutcomesFor(input) ==
    {o \in [1..Len(input) -> DriveOutcomes \cup {"none"}] :
        \A i \in 1..Len(input) : (input[i].type = "drive") <=> (o[i] # "none")}

NoBuild == [arg |-> <<>>, input |-> <<>>, outcomes |-> <<>>, cleared |-> FALSE]

NoCall ==
    [op |-> "none", status |-> 0, ingest |-> "none", message |-> "",
     material |-> NullMaterial, stale |-> FALSE, hadMaterial |-> FALSE,
     raw |-> "", answer |-> "", isGrounded |-> FALSE,
     target |-> "", llmCalls |-> 0, summary |-> NoSummary, retryRaw |-> "",
     questions |-> <<>>, repeated |-> FALSE, wasActive |-> FALSE, llmThrew |-> FALSE]

ActiveNotebook == store[activeNotebookId]

\* one more request is served
Served == requests < MaxRequests /\ requests' = requests + 1

SourceId(n) == "s" \o NatToString(n)

\* history kept with a build: whether the active notebook's sources were cleared
\* with no source added since
Cleared == builtFrom[activeNotebookId].cleared

\* history: an ingestion of input with these extractor outcomes repeats the one
\* the stored material of the active notebook was built by
Repeats(input, outcomes) ==
    /\ ~ActiveNotebook.studyMaterial.isNull
    /\ builtFrom[activeNotebookId].arg = ActiveNotebook.sources
    /\ builtFrom[activeNotebookId].input = input
    /\ builtFrom[activeNotebookId].outcomes = outcomes

\* the material stored in the active notebook was built from another source list
\* than the notebook holds now
IsStale ==
    /\ ~ActiveNotebook.studyMaterial.isNull
    /\ builtFrom[activeNotebookId].arg # ActiveNotebook.sources

\* ingestStudyMaterials(storage.getSources()) followed by setStudyMaterial, as the
\* add and upload routes run it after storing the new source nb holds
IngestAfterAdd(op, nb, outcomes) ==
    \E m \in {ingestStudyMaterials(nb.sources, isDefaultActive, env, outcomes)} :
        /\ store' = [store EXCEPT ![activeNotebookId] = setStudyMaterial(nb, m)]
        /\ builtFrom' = [builtFrom EXCEPT ![activeNotebookId] =
                            [arg |-> nb.sources, input |-> nb.sources, outcomes |-> outcomes,
                             cleared |-> FALSE]]
        /\ lastCall' = [NoCall EXCEPT !.op = op, !.status = 200, !.ingest = "sources",
                           !.material = m, !.stale = IsStale,
                           !.hadMaterial = ~ActiveNotebook.studyMaterial.isNull]

\* POST /sources/add
AddSource ==
    /\ Served
    /\ \E body \in AddBodies :
        IF \/ body.type = ""
           \/ (body.type \in {"drive", "youtube"} /\ body.url = "")
           \/ (body.type = "text" /\ body.content = "")
           \/ body.type \notin {"drive", "youtube", "text"}
        THEN /\ lastCall' = [NoCall EXCEPT !.op = "add", !.status = 400]
             /\ UNCHANGED <<store, nextId, builtFrom>>
        ELSE /\ Len(ActiveNotebook.sources) < MaxSources
             /\ nextId < MaxIds
             /\ nextId' = nextId + 1
             /\ \E nb \in {addSource(ActiveNotebook, SourceId(nextId + 1),
                    [type |-> body.type,
                     name |-> IF body.name # "" THEN body.name ELSE body.type \o " source",
                     url |-> IF body.type \in {"drive", "youtube"} THEN body.url ELSE NoField,
                     content |-> IF body.type = "text" THEN body.content ELSE NoField,
                     text |-> NoField, fileUri |-> NoField, mimeType |-> NoField])} :
                  \E outcomes \in OutcomesFor(nb.sources) : IngestAfterAdd("add", nb, outcomes)
    /\ UNCHANGED <<env, notebooks, activeNotebookId, gvars, uvars, cvars, mvars>>

\* POST /upload: processUploadedFile, addSource, then ingestion
UploadFile ==
    /\ Served
    /\ \E file \in UploadFiles : \E upload \in {"ok", "fail"} :
        IF file.mimetype = "application/pdf" /\ upload = "fail"
        THEN /\ lastCall' = [NoCall EXCEPT !.op = "upload", !.status = 500,
                                !.message = "File processing failed."]
             /\ UNCHANGED <<store, nextId, builtFrom>>
        ELSE /\ (file.mimetype = "application/pdf" \/ upload = "ok")
             /\ Len(ActiveNotebook.sources) < MaxSources
             /\ nextId < MaxIds
             /\ nextId' = nextId + 1
             /\ \E nb \in {addSource(ActiveNotebook, SourceId(nextId + 1),
                    [type |-> "file", name |-> file.originalname, url |-> NoField,
                     content |-> NoField,
                     text |-> IF file.mimetype = "application/pdf" THEN "" ELSE file.body,
                     fileUri |-> NoField, mimeType |-> NoField])} :
                  \E outcomes \in OutcomesFor(nb.sources) : IngestAfterAdd("upload", nb, outcomes)
    /\ UNCHANGED <<env, notebooks, activeNotebookId, gvars, uvars, cvars, mvars>>

\* DELETE /sources/:id
RemoveSource ==
    /\ Served
    /\ \E n \in 1..MaxIds :
        IF HasSource(ActiveNotebook, SourceId(n))
        THEN /\ store' = [store EXCEPT ![activeNotebookId] = removeSource(@, SourceId(n))]
             /\ lastCall' = [NoCall EXCEPT !.op = "remove", !.status = 200,
                                !.target = SourceId(n)]
        ELSE /\ lastCall' = [NoCall EXCEPT !.op = "remove", !.status = 404,
                                !.message = "Source not found", !.target = SourceId(n)]
             /\ UNCHANGED store
    /\ UNCHANGED <<env, notebooks, activeNotebookId, nextId, builtFrom, gvars, uvars, cvars, mvars>>

\* POST /sources/clear without the call of clearStudyMaterial
ClearSourcesKeepsMaterial ==
    /\ Served
    /\ store' = [store EXCEPT ![activeNotebookId] = clearSources(@)]
    /\ builtFrom' = [builtFrom EXCEPT ![activeNotebookId] = [NoBuild EXCEPT !.cleared = TRUE]]
    /\ lastCall' = [NoCall EXCEPT !.op = "clear", !.status = 200,
                       !.hadMaterial = ~ActiveNotebook.studyMaterial.isNull]
    /\ UNCHANGED <<env, notebooks, activeNotebookId, nextId, gvars, uvars, cvars, mvars>>

\* POST /sources/clear
ClearSources ==
    /\ Served
    /\ store' = [store EXCEPT ![activeNotebookId] = clearStudyMaterial(clearSources(@))]
    /\ builtFrom' = [builtFrom EXCEPT ![activeNotebookId] = [NoBuild EXCEPT !.cleared = TRUE]]
    /\ lastCall' = [NoCall EXCEPT !.op = "clear", !.status = 200,
                       !.hadMaterial = ~ActiveNotebook.studyMaterial.isNull]
    /\ UNCHANGED <<env, notebooks, activeNotebookId, nextId, gvars, uvars, cvars, mvars>>

\* the status errorHandler answers with for an error carrying statusCode
ErrorStatus(statusCode) == IF statusCode # 0 THEN statusCode ELSE 500

\* POST /ingest
PostIngest ==
    /\ Served
    /\ \E input \in {IngestInput(ActiveNotebook.sources, isDefaultActive, env)} :
       \E outcomes \in OutcomesFor(input) :
       \E m \in {ingestStudyMaterials(ActiveNotebook.sources, isDefaultActive, env, outcomes)} :
       \E call \in {[NoCall EXCEPT !.op = "ingest",
                        !.ingest = IF ActiveNotebook.sources # <<>> THEN "sources" ELSE "null",
                        !.stale = IsStale, !.repeated = Repeats(input, outcomes),
                        !.hadMaterial = ~ActiveNotebook.studyMaterial.isNull]} :
        IF m.threw
        THEN /\ lastCall' = [call EXCEPT !.status = ErrorStatus(m.statusCode),
                                !.message = m.message]
             /\ UNCHANGED <<store, builtFrom>>
        ELSE /\ store' = [store EXCEPT ![activeNotebookId] = setStudyMaterial(@, m)]
             /\ builtFrom' = [builtFrom EXCEPT ![activeNotebookId] =
                    [arg |-> ActiveNotebook.sources, input |-> input, outcomes |-> outcomes,
                     cleared |-> Cleared]]
             /\ lastCall' = [call EXCEPT !.status = 200, !.material = m]
    /\ UNCHANGED <<env, notebooks, activeNotebookId, nextId, gvars, uvars, cvars, mvars>>

\* askQuestion / dialogueTurn behind POST /ask and POST /dialogue: requireMaterial,
\* the model call, enforceGrounding, and the append to the history
Orchestrate(op, mode) ==
    /\ Served
    /\ Len(IF mode = "qa" THEN ActiveNotebook.qaHistory
           ELSE ActiveNotebook.conversationHistory) < MaxHistory
    /\ \E input \in {IngestInput(ActiveNotebook.sources, isDefaultActive, env)} :
       \E outcomes \in OutcomesFor(input) :
       \E rm \in {requireMaterial(ActiveNotebook, isDefaultActive, env, outcomes)} :
       \E call \in {[NoCall EXCEPT !.op = op, !.ingest = rm.ingest, !.stale = IsStale,
                        !.repeated = (rm.ingest # "none" /\ Repeats(input, outcomes)),
                        !.hadMaterial = ~ActiveNotebook.studyMaterial.isNull]} :
        IF rm.threw
        THEN /\ lastCall' = [call EXCEPT !.status = ErrorStatus(rm.statusCode),
                                !.message = rm.message]
             /\ UNCHANGED <<store, builtFrom>>
        ELSE /\ builtFrom' = IF rm.ingest = "none" THEN builtFrom
                             ELSE [builtFrom EXCEPT ![activeNotebookId] =
                                    [arg |-> ActiveNotebook.sources, input |-> input,
                                     outcomes |-> outcomes, cleared |-> Cleared]]
             /\ \/ /\ lastCall' = [call EXCEPT !.status = 500, !.message = "fetch failed",
                                       !.material = rm.material, !.llmCalls = 1,
                                       !.llmThrew = TRUE]
                   /\ store' = [store EXCEPT ![activeNotebookId] = rm.nb]
                \/ \E raw \in RawAnswers :
                   \E enforced \in {enforceGrounding(TrimmedAnswer[raw], rm.material, mode)} :
                     /\ lastCall' = [call EXCEPT !.status = 200, !.material = rm.material,
                                        !.llmCalls = 1,
                                        !.raw = TrimmedAnswer[raw], !.answer = enforced.answer,
                                        !.isGrounded = enforced.isGrounded]
                     /\ store' = [store EXCEPT ![activeNotebookId] =
                            IF mode = "qa"
                            THEN addQAEntry(rm.nb,
                                    [question |-> "q", answer |-> enforced.answer,
                                     isGrounded |-> enforced.isGrounded,
                                     sources |-> rm.material.sources])
                            ELSE addToHistory(rm.nb,
                                    [studentMessage |-> "q", teacherResponse |-> enforced.answer,
                                     isGrounded |-> enforced.isGrounded,
                                     sources |-> rm.material.sources,
                                     conversationLength |->
                                        Len(ActiveNotebook.conversationHistory) + 1])]
    /\ UNCHANGED <<env, notebooks, activeNotebookId, nextId, gvars, uvars, cvars, mvars>>

Ask == Orchestrate("ask", "qa")

\* generateSummary behind POST /summary: requireMaterial, the model call, one
\* retry when the reply is not JSON, the fallback summary; nothing is appended
\* to a history, and isGrounded is the constant the source returns
Summary ==
    /\ Served
    /\ \E input \in {IngestInput(ActiveNotebook.sources, isDefaultActive, env)} :
       \E outcomes \in OutcomesFor(input) :
       \E rm \in {requireMaterial(ActiveNotebook, isDefaultActive, env, outcomes)} :
       \E call \in {[NoCall EXCEPT !.op = "summary", !.ingest = rm.ingest, !.stale = IsStale,
                        !.repeated = (rm.ingest # "none" /\ Repeats(input, outcomes)),
                        !.hadMaterial = ~ActiveNotebook.studyMaterial.isNull]} :
        IF rm.threw
        THEN /\ lastCall' = [call EXCEPT !.status = ErrorStatus(rm.statusCode),
                                !.message = rm.message]
             /\ UNCHANGED <<store, builtFrom>>
        ELSE /\ builtFrom' = IF rm.ingest = "none" THEN builtFrom
                             ELSE [builtFrom EXCEPT ![activeNotebookId] =
                                    [arg |-> ActiveNotebook.sources, input |-> input,
                                     outcomes |-> outcomes, cleared |-> Cleared]]
             /\ store' = [store EXCEPT ![activeNotebookId] = rm.nb]
             /\ \E first \in SummaryReplies \cup {LlmThrows} :
                \E second \in RetryReplies(first) :
                \E r \in {SummaryFromReplies(first, second)} :
                  lastCall' =
                    IF r.threw
                    THEN [call EXCEPT !.status = 500, !.message = "fetch failed",
                             !.material = rm.material, !.llmCalls = r.llmCalls,
                             !.llmThrew = TRUE]
                    ELSE [call EXCEPT !.status = 200, !.material = rm.material,
                             !.llmCalls = r.llmCalls, !.summary = r.summary,
                             !.raw = r.raw, !.retryRaw = r.retryRaw, !.isGrounded = TRUE,
                             !.llmThrew = (r.llmCalls = 2 /\ second = LlmThrows)]
    /\ UNCHANGED <<env, notebooks, activeNotebookId, nextId, gvars, uvars, cvars, mvars>>

Dialogue == Orchestrate("dialogue", "dialogue")

\* POST /suggest-questions with the cache test left out (force)
SuggestForced ==
    /\ Served
    /\ \E input \in {IngestInput(ActiveNotebook.sources, isDefaultActive, env)} :
       \E outcomes \in OutcomesFor(input) :
       \E rm \in {requireMaterial(ActiveNotebook, isDefaultActive, env, outcomes)} :
       \E call \in {[NoCall EXCEPT !.op = "suggest", !.ingest = rm.ingest, !.stale = IsStale,
                        !.repeated = (rm.ingest # "none" /\ Repeats(input, outcomes)),
                        !.hadMaterial = ~ActiveNotebook.studyMaterial.isNull]} :
        IF rm.threw
        THEN /\ lastCall' = [call EXCEPT !.status = 200, !.message = rm.message,
                                !.questions = NoMaterialQuestions]
             /\ UNCHANGED <<store, builtFrom>>
        ELSE /\ builtFrom' = IF rm.ingest = "none" THEN builtFrom
                             ELSE [builtFrom EXCEPT ![activeNotebookId] =
                                    [arg |-> ActiveNotebook.sources, input |-> input,
                                     outcomes |-> outcomes, cleared |-> Cleared]]
             /\ \E reply \in SuggestReplies :
                  /\ lastCall' = [call EXCEPT !.status = 200, !.material = rm.material,
                                     !.llmCalls = 1, !.raw = Trim(reply),
                                     !.questions = SuggestReply[reply]]
                  /\ store' = [store EXCEPT ![activeNotebookId] =
                                 IF SuggestReply[reply] # <<>>
                                 THEN setSuggestedQuestions(rm.nb, SuggestReply[reply])
                                 ELSE rm.nb]
    /\ UNCHANGED <<env, notebooks, activeNotebookId, nextId, gvars, uvars, cvars, mvars>>

\* generateSuggestedQuestions() behind POST /suggest-questions (the route passes
\* no options, so force is never set): the cache, requireMaterial with its
\* catch, the model call, the validation of the reply, the caching, and the
\* catch block of the route
Suggest ==
    /\ Served
    /\ IF getSuggestedQuestions(ActiveNotebook) # <<>>
       THEN /\ lastCall' = [NoCall EXCEPT !.op = "suggest", !.status = 200,
                               !.hadMaterial = ~ActiveNotebook.studyMaterial.isNull,
                               !.questions = getSuggestedQuestions(ActiveNotebook)]
            /\ UNCHANGED <<store, builtFrom>>
       ELSE
       \E input \in {IngestInput(ActiveNotebook.sources, isDefaultActive, env)} :
       \E outcomes \in OutcomesFor(input) :
       \E rm \in {requireMaterial(ActiveNotebook, isDefaultActive, env, outcomes)} :
       \E call \in {[NoCall EXCEPT !.op = "suggest", !.ingest = rm.ingest, !.stale = IsStale,
                        !.repeated = (rm.ingest # "none" /\ Repeats(input, outcomes)),
                        !.hadMaterial = ~ActiveNotebook.studyMaterial.isNull]} :
        IF rm.threw
        THEN /\ lastCall' = [call EXCEPT !.status = 200, !.message = rm.message,
                                !.questions = NoMaterialQuestions]
             /\ UNCHANGED <<store, builtFrom>>
        ELSE /\ builtFrom' = IF rm.ingest = "none" THEN builtFrom
                             ELSE [builtFrom EXCEPT ![activeNotebookId] =
                                    [arg |-> ActiveNotebook.sources, input |-> input,
                                     outcomes |-> outcomes, cleared |-> Cleared]]
             /\ IF rm.material.sources = <<>>
                THEN /\ lastCall' = [call EXCEPT !.status = 200, !.material = rm.material,
                                        !.questions = NoMaterialQuestions]
                     /\ store' = [store EXCEPT ![activeNotebookId] = rm.nb]
                ELSE \/ \E message \in SuggestErrors :
                          /\ lastCall' =
                                IF IsQuotaError(message)
                                THEN [call EXCEPT !.status = 200, !.material = rm.material,
                                         !.llmCalls = 1, !.llmThrew = TRUE,
                                         !.questions = GenericQuestions]
                                ELSE [call EXCEPT !.status = 500, !.material = rm.material,
                                         !.llmCalls = 1, !.llmThrew = TRUE,
                                         !.message = message]
                          /\ store' = [store EXCEPT ![activeNotebookId] = rm.nb]
                     \/ \E reply \in SuggestReplies :
                          /\ lastCall' = [call EXCEPT !.status = 200, !.material = rm.material,
                                             !.llmCalls = 1, !.raw = Trim(reply),
                                             !.questions = SuggestReply[reply]]
                          /\ store' = [store EXCEPT ![activeNotebookId] =
                                         IF SuggestReply[reply] # <<>>
                                         THEN setSuggestedQuestions(rm.nb, SuggestReply[reply])
                                         ELSE rm.nb]
    /\ UNCHANGED <<env, notebooks, activeNotebookId, nextId, gvars, uvars, cvars, mvars>>

\* POST /clear-history
ClearHistory ==
    /\ Served
    /\ store' = [store EXCEPT ![activeNotebookId] = clearHistory(@)]
    /\ lastCall' = [NoCall EXCEPT !.op = "clear-history", !.status = 200]
    /\ UNCHANGED <<env, notebooks, activeNotebookId, nextId, builtFrom, gvars, uvars, cvars, mvars>>

\* POST /notebooks: a new, empty notebook, made the active one; the material
\* of the notebook left is dropped
CreateNotebook ==
    /\ Served
    /\ \E id \in NotebookIds \ notebooks :
        /\ notebooks' = notebooks \cup {id}
        /\ activeNotebookId' = id
        /\ store' = [store EXCEPT ![activeNotebookId] = clearStudyMaterial(@),
                                  ![id] = [EmptyNotebook EXCEPT !.name = NewNotebookName]]
        /\ builtFrom' = [builtFrom EXCEPT
                            ![activeNotebookId] = [NoBuild EXCEPT !.cleared = Cleared],
                            ![id] = NoBuild]
    /\ lastCall' = [NoCall EXCEPT !.op = "create-notebook", !.status = 200]
    /\ UNCHANGED <<env, nextId, gvars, uvars, cvars, mvars>>

\* POST /notebooks/:id/activate: another notebook becomes the active one; the
\* material of the notebook left is dropped
ActivateNotebook ==
    /\ Served
    /\ \E id \in notebooks \ {activeNotebookId} :
        /\ activeNotebookId' = id
        /\ store' = [store EXCEPT ![activeNotebookId] = clearStudyMaterial(@)]
        /\ builtFrom' = [builtFrom EXCEPT
                            ![activeNotebookId] = [NoBuild EXCEPT !.cleared = Cleared]]
    /\ lastCall' = [NoCall EXCEPT !.op = "activate", !.status = 200]
    /\ UNCHANGED <<env, notebooks, nextId, gvars, uvars, cvars, mvars>>

\* POST /notebooks/:id/rename: fails for an unknown id and for the default
\* notebook, else the notebook gets the new name
RenameNotebook ==
    /\ Served
    /\ \E id \in NotebookIds \cup {UnknownNotebookId} : \E name \in NotebookNames :
       \E call \in {[NoCall EXCEPT !.op = "rename-notebook", !.target = id,
                        !.wasActive = (id = activeNotebookId)]} :
        IF id \notin notebooks
        THEN /\ lastCall' = [call EXCEPT !.status = 404, !.message = "NotFound"]
             /\ UNCHANGED store
        ELSE IF id = DefaultNotebookId
        THEN /\ lastCall' = [call EXCEPT !.status = 400, !.message = "PolicyViolation"]
             /\ UNCHANGED store
        ELSE /\ lastCall' = [call EXCEPT !.status = 200]
             /\ store' = [store EXCEPT ![id].name = name]
    /\ UNCHANGED <<env, notebooks, activeNotebookId, nextId, builtFrom, gvars, uvars, cvars, mvars>>

\* DELETE /notebooks/:id with the active pointer left where it was
DeleteNotebookKeepsActive ==
    /\ Served
    /\ \E id \in NotebookIds \cup {UnknownNotebookId} :
       \E call \in {[NoCall EXCEPT !.op = "delete-notebook", !.target = id,
                        !.wasActive = (id = activeNotebookId),
                        !.hadMaterial = (id \in notebooks /\ ~store[id].studyMaterial.isNull)]} :
        IF id \notin notebooks
        THEN /\ lastCall' = [call EXCEPT !.status = 404, !.message = "NotFound"]
             /\ UNCHANGED <<store, notebooks, activeNotebookId, builtFrom>>
        ELSE IF id = DefaultNotebookId
        THEN /\ lastCall' = [call EXCEPT !.status = 400, !.message = "PolicyViolation"]
             /\ UNCHANGED <<store, notebooks, activeNotebookId, builtFrom>>
        ELSE /\ lastCall' = [call EXCEPT !.status = 200]
             /\ notebooks' = notebooks \ {id}
             /\ store' = [store EXCEPT ![id] = EmptyNotebook]
             /\ builtFrom' = [builtFrom EXCEPT ![id] = NoBuild]
             /\ UNCHANGED activeNotebookId
    /\ UNCHANGED <<env, nextId, gvars, uvars, cvars, mvars>>

\* DELETE /notebooks/:id: fails for an unknown id and for the default notebook,
\* else the notebook goes with all it holds, and the default notebook becomes
\* the active one when the deleted one was
DeleteNotebook ==
    /\ Served
    /\ \E id \in NotebookIds \cup {UnknownNotebookId} :
       \E call \in {[NoCall EXCEPT !.op = "delete-notebook", !.target = id,
                        !.wasActive = (id = activeNotebookId),
                        !.hadMaterial = (id \in notebooks /\ ~store[id].studyMaterial.isNull)]} :
        IF id \notin notebooks
        THEN /\ lastCall' = [call EXCEPT !.status = 404, !.message = "NotFound"]
             /\ UNCHANGED <<store, notebooks, activeNotebookId, builtFrom>>
        ELSE IF id = DefaultNotebookId
        THEN /\ lastCall' = [call EXCEPT !.status = 400, !.message = "PolicyViolation"]
             /\ UNCHANGED <<store, notebooks, activeNotebookId, builtFrom>>
        ELSE /\ lastCall' = [call EXCEPT !.status = 200]
             /\ notebooks' = notebooks \ {id}
             /\ store' = [store EXCEPT ![id] = EmptyNotebook]
             /\ builtFrom' = [builtFrom EXCEPT ![id] = NoBuild]
             /\ activeNotebookId' =
                    IF activeNotebookId = id THEN DefaultNotebookId ELSE activeNotebookId
    /\ UNCHANGED <<env, nextId, gvars, uvars, cvars, mvars>>

(***************************************************************************)
(* fileManager.js: uploadToGemini, the upload to the remote file store and *)
(* the polling of the file status                                          *)
(***************************************************************************)
\* getFile calls one upload may make
MaxPolls == 3

\* the values of the vendor's File.state
FileStates == {"STATE_UNSPECIFIED", "PROCESSING", "ACTIVE", "FAILED"}

\* calls of uploadToGemini(filePath, mimeType)
UploadCalls ==
    {[filePath |-> "/tmp/drive_1AbCdEfGhIjKlMnOpQrStUvWxYz.pdf", mimeType |-> "application/pdf"],
     [filePath |-> "/tmp/upload_1_slides.pdf", mimeType |-> "application/pdf"],
     [filePath |-> "/tmp/upload_2_chart.png", mimeType |-> "image/png"],
     [filePath |-> "photo.jpg", mimeType |-> "image/jpeg"]}

NoUploadArgs == [filePath |-> "", mimeType |-> ""]

NoFile == [name |-> "", displayName |-> "", uri |-> "", mimeType |-> "", state |-> ""]

NoUploadResult == [threw |-> FALSE, message |-> "", file |-> NoFile]

\* filePath.split('/').pop()
PopPathSegment(filePath) ==
    SubSeq(filePath, LastIndexOfChar(filePath, "/") + 1, Len(filePath))

\* the file resource the vendor keeps for an upload, in the given state
RemoteFile(args, state) ==
    [name |-> "files/f1", displayName |-> PopPathSegment(args.filePath),
     uri |-> "https://generativelanguage.googleapis.com/v1beta/files/f1",
     mimeType |-> args.mimeType, state |-> state]

\* no upload is under way
UploadIdle ==
    /\ upPc = "idle"
    /\ upArgs = NoUploadArgs
    /\ uploadResponse = [file |-> NoFile]
    /\ upFile = NoFile
    /\ getFileCalls = 0
    /\ upResult = NoUploadResult

\* the catch block: console.error, then throw error
UploadThrows(message) ==
    /\ upPc' = "threw"
    /\ upResult' = [threw |-> TRUE, message |-> message, file |-> NoFile]

\* await fileManager.uploadFile(filePath, {mimeType, displayName})
UploadFileCall ==
    /\ upPc = "start"
    /\ \/ /\ uploadResponse' = [file |-> RemoteFile(upArgs, "PROCESSING")]
          /\ upPc' = "uploaded"
          /\ UNCHANGED upResult
       \/ /\ UploadThrows("upload failed")
          /\ UNCHANGED uploadResponse
    /\ UNCHANGED <<upArgs, upFile, getFileCalls, gvars, svars, cvars, mvars>>

\* await fileManager.getFile(uploadResponse.file.name): the vendor answers with
\* the file in whatever state it is in, or the request fails
GetFileAnswers(pcAfter) ==
    /\ \/ \E state \in FileStates :
             /\ upFile' = [uploadResponse.file EXCEPT !.state = state]
             /\ getFileCalls' = getFileCalls + 1
             /\ upPc' = pcAfter
             /\ UNCHANGED upResult
       \/ /\ UploadThrows("fetch failed")
          /\ getFileCalls' = getFileCalls + 1
          /\ UNCHANGED upFile
    /\ UNCHANGED <<upArgs, uploadResponse, gvars, svars, cvars, mvars>>

\* let file = await fileManager.getFile(...), before the loop
FirstGetFile ==
    /\ upPc = "uploaded"
    /\ GetFileAnswers("loop")

\* the loop test holds: await new Promise(resolve => setTimeout(resolve, 2000))
WaitWhileProcessing ==
    /\ upPc = "loop"
    /\ upFile.state = "PROCESSING"
    /\ upPc' = "waited"
    /\ UNCHANGED <<upArgs, uploadResponse, upFile, getFileCalls, upResult, gvars, svars, cvars, mvars>>

\* file = await fileManager.getFile(...), in the loop body
NextGetFile ==
    /\ upPc = "waited"
    /\ getFileCalls < MaxPolls
    /\ GetFileAnswers("loop")

\* the loop test fails: throw when the state is FAILED, return upFile otherwise
LeaveLoop ==
    /\ upPc = "loop"
    /\ upFile.state # "PROCESSING"
    /\ IF upFile.state = "FAILED"
       THEN UploadThrows("Video processing failed.")
       ELSE /\ upPc' = "returned"
            /\ upResult' = [threw |-> FALSE, message |-> "", file |-> upFile]
    /\ UNCHANGED <<upArgs, uploadResponse, upFile, getFileCalls, gvars, svars, cvars, mvars>>

(***************************************************************************)
(* Requests in flight.  A handler runs until it awaits the extractor of a  *)
(* Drive source or the model call; other requests are handled meanwhile.   *)
(* calls holds, per request, where it stands and its local variables.      *)
(***************************************************************************)
\* ids of the requests of one run, in order of arrival
CallIds == 1..MaxRequests

\* a reference to a conversationHistory array: the notebook whose array it was
\* when read, and the number of arrays clearHistory had replaced there before
NoHistoryRef == [nb |-> "", gen |-> 0]

NoEntry == [answer |-> "", isGrounded |-> FALSE, sources |-> <<>>, conversationLength |-> 0]

IdleCall ==
    [op |-> "none", pc |-> "idle", from |-> "", arg |-> <<>>, input |-> <<>>,
     material |-> NullMaterial, history |-> NoHistoryRef, parts |-> <<>>, names |-> <<>>,
     landed |-> "", into |-> "", status |-> 0, message |-> "", raw |-> "",
     replaced |-> FALSE, entry |-> NoEntry]

ConcurrentIdle ==
    /\ calls = [cid \in CallIds |-> IdleCall]
    /\ detached = [id \in NotebookIds |-> <<>>]

\* normalizeParts: file fragments with both fields set and text fragments that
\* are not blank are kept (every text fragment of the pipeline starts with a
\* non-blank header line)
normalizeParts(parts) ==
    SelectSeq(parts, LAMBDA p :
        \/ (p.kind = "fileData" /\ p.mimeType # "" /\ p.fileUri # "")
        \/ p.kind = "text")

\* storage.getHistory(): the array object the active notebook holds now
getHistory == [nb |-> activeNotebookId, gen |-> Len(detached[activeNotebookId])]

\* history.length, read through a reference: the live length of the array while
\* the notebook still holds it, the final length of an array clearHistory replaced
HistoryLength(ref) ==
    IF ref.gen = Len(detached[ref.nb])
    THEN Len(store[ref.nb].conversationHistory)
    ELSE Len(detached[ref.nb][ref.gen + 1])

\* history: the active notebook holds another material than the one a call works on
StoredIsAnother(material) ==
    /\ ~ActiveNotebook.studyMaterial.isNull
    /\ ActiveNotebook.studyMaterial.contextParts # material.contextParts

\* sources of the entry, read from the stored material again after the model call
EntrySourcesReread(material, stored) == stored.sources

\* sources: material.sources of the entry askQuestion and dialogueTurn build
EntrySources(material, stored) == material.sources

\* processDriveFile is the only branch of the ingestion loop that awaits I/O
AwaitsExtractor(input) == \E i \in 1..Len(input) : input[i].type = "drive"

\* some ingestion awaits nothing but its own completion: it resumes before any
\* other request is handled
Resuming ==
    \E cid \in CallIds : calls[cid].pc = "extract" /\ ~AwaitsExtractor(calls[cid].input)

\* from the return of requireMaterial to the model call: the locals material,
\* history and parts
BeginLlm(call, material) ==
    [call EXCEPT !.pc = "llm", !.material = material,
                 !.parts = normalizeParts(material.contextParts),
                 !.history = IF call.op = "dialogue" THEN getHistory ELSE NoHistoryRef]

CallFails(call, status, message) ==
    [call EXCEPT !.pc = "done", !.status = status, !.message = message]

\* a request arrives: POST /ask, POST /dialogue or POST /ingest, up to its first await
CStart ==
    /\ ~Resuming
    /\ Served
    /\ \E op \in {"ask", "dialogue", "ingest"} :
       \E call \in {[IdleCall EXCEPT !.op = op, !.from = activeNotebookId]} :
       \E input \in {IngestInput(ActiveNotebook.sources, isDefaultActive, env)} :
        calls' = [calls EXCEPT ![requests + 1] =
            IF op # "ingest" /\ ~needsIngest(ActiveNotebook.studyMaterial, ActiveNotebook.sources)
            THEN BeginLlm(call, ActiveNotebook.studyMaterial)
            ELSE IF op # "ingest" /\ ActiveNotebook.sources = <<>> /\ ~isDefaultActive
            THEN CallFails(call, 400, "Study material not ingested yet")
            ELSE IF input = <<>>
            THEN CallFails(call, 500,
                           IngestOf(ActiveNotebook.sources, isDefaultActive, input, <<>>).message)
            ELSE [call EXCEPT !.pc = "extract", !.arg = ActiveNotebook.sources,
                              !.input = input]]
    /\ UNCHANGED <<env, notebooks, activeNotebookId, store, nextId, builtFrom, lastCall,
                   detached, gvars, uvars, mvars>>

\* ingestStudyMaterials resolves: storage.setStudyMaterial(m) on the notebook
\* that is active now, then the response of /ingest or the rest of the
\* orchestrator up to the model call
CFinishIngest ==
    /\ \E cid \in CallIds :
        /\ calls[cid].pc = "extract"
        /\ Resuming => ~AwaitsExtractor(calls[cid].input)
        /\ \E outcomes \in OutcomesFor(calls[cid].input) :
           \E m \in {IngestedMaterial(IngestLoop(calls[cid].input, outcomes,
                                                 Len(calls[cid].input)))} :
            /\ store' = [store EXCEPT ![activeNotebookId] = setStudyMaterial(@, m)]
            /\ builtFrom' = [builtFrom EXCEPT ![activeNotebookId] =
                                [arg |-> calls[cid].arg, input |-> calls[cid].input,
                                 outcomes |-> outcomes, cleared |-> Cleared]]
            /\ calls' = [calls EXCEPT ![cid] =
                            IF @.op = "ingest"
                            THEN [@ EXCEPT !.pc = "done", !.status = 200, !.material = m,
                                           !.landed = activeNotebookId]
                            ELSE [BeginLlm(@, m) EXCEPT !.landed = activeNotebookId]]
    /\ UNCHANGED <<env, notebooks, activeNotebookId, nextId, requests, lastCall,
                   detached, gvars, uvars, mvars>>

\* model.generateContent settles: it rejects, or enforceGrounding, the entry and
\* the append to the history of the notebook that is active now
CFinishLlm ==
    /\ ~Resuming
    /\ \E cid \in CallIds :
        /\ calls[cid].pc = "llm"
        /\ \/ /\ calls' = [calls EXCEPT ![cid] = CallFails(@, 500, "fetch failed")]
              /\ UNCHANGED store
           \/ \E raw \in RawAnswers :
              \E enforced \in {enforceGrounding(TrimmedAnswer[raw], calls[cid].material,
                                   IF calls[cid].op = "dialogue" THEN "dialogue" ELSE "qa")} :
              \E entry \in {[answer |-> enforced.answer, isGrounded |-> enforced.isGrounded,
                             sources |-> EntrySources(calls[cid].material,
                                                      ActiveNotebook.studyMaterial),
                             conversationLength |->
                                IF calls[cid].op = "dialogue"
                                THEN HistoryLength(calls[cid].history) + 1 ELSE 0]} :
                /\ store' = [store EXCEPT ![activeNotebookId] =
                        IF calls[cid].op = "ask"
                        THEN addQAEntry(@, [question |-> "q", answer |-> entry.answer,
                                            isGrounded |-> entry.isGrounded,
                                            sources |-> entry.sources])
                        ELSE addToHistory(@, [studentMessage |-> "q",
                                              teacherResponse |-> entry.answer,
                                              isGrounded |-> entry.isGrounded,
                                              sources |-> entry.sources,
                                              conversationLength |-> entry.conversationLength])]
                /\ calls' = [calls EXCEPT ![cid] =
                                [@ EXCEPT !.pc = "done", !.status = 200, !.entry = entry,
                                          !.raw = TrimmedAnswer[raw],
                                          !.names = calls[cid].material.sources,
                                          !.into = activeNotebookId,
                                          !.replaced = StoredIsAnother(calls[cid].material)]]
    /\ UNCHANGED <<env, notebooks, activeNotebookId, nextId, builtFrom, requests, lastCall,
                   detached, gvars, uvars, mvars>>

\* POST /clear-history while requests are in flight: the active notebook gets
\* two new arrays, the array it held stays with the calls that read it
CClearHistory ==
    /\ ~Resuming
    /\ Served
    /\ detached' = [detached EXCEPT ![activeNotebookId] =
                        Append(@, ActiveNotebook.conversationHistory)]
    /\ store' = [store EXCEPT ![activeNotebookId] = clearHistory(@)]
    /\ lastCall' = [NoCall EXCEPT !.op = "clear-history", !.status = 200]
    /\ UNCHANGED <<env, notebooks, activeNotebookId, nextId, builtFrom, calls, gvars, uvars, mvars>>

\* POST /notebooks/:id/activate while requests are in flight
CActivate == ~Resuming /\ ActivateNotebook

(***************************************************************************)
(* useSpeechRecognition.js: the hook's refs and state, the recognizer's    *)
(* events and the restart timer                                            *)
(***************************************************************************)
\* consecutive quick ends followed in one run
MaxQuickEnds == 7

\* event.error values: a fatal one, silence, and a network failure
RecognitionErrors == {"not-allowed", "no-speech", "network"}

FatalErrors == {"not-allowed", "service-not-allowed", "audio-capture"}

FatalMessage(err) ==
    IF err = "not-allowed" THEN "Microphone permission denied."
    ELSE IF err = "service-not-allowed" THEN "Browser blocked microphone access."
    ELSE "No microphone detected."

\* the hook after its effect ran in a browser that supports speech recognition;
\* startTimeRef is 0, so more than a second lies between it and any Date.now()
SpeechIdle ==
    /\ recState = "idle"
    /\ desiredState = FALSE
    /\ micStatus = "idle"
    /\ isListening = FALSE
    /\ errorMessage = ""
    /\ startedAgo = TRUE
    /\ restartCount = 0
    /\ restartTimeout = 0
    /\ quickEnds = 0

RECURSIVE Pow2(_)
Pow2(n) == IF n = 0 THEN 1 ELSE 2 * Pow2(n - 1)

\* restartCount > 0 ? Math.min(1000 * Math.pow(2, restartCount), 10000) : 100
backoffDelay(count) ==
    IF count > 0
    THEN (IF 1000 * Pow2(count) < 10000 THEN 1000 * Pow2(count) ELSE 10000)
    ELSE 100

\* recognition.start(): an idle recognizer begins to start; called on one that
\* is not idle it throws, and both callers catch that
RecognitionStart == IF recState = "idle" THEN "starting" ELSE recState

\* start(): the user turns the microphone on
MicStart ==
    /\ ~desiredState
    /\ desiredState' = TRUE
    /\ micStatus' = "initializing"
    /\ errorMessage' = ""
    /\ restartCount' = 0
    /\ recState' = RecognitionStart
    /\ quickEnds' = 0
    /\ UNCHANGED <<isListening, startedAgo, restartTimeout, gvars, svars, uvars, cvars>>

\* stop(): the user turns the microphone off
MicStop ==
    /\ desiredState' = FALSE
    /\ micStatus' = "idle"
    /\ recState' = IF recState \in {"starting", "running"} THEN "ending" ELSE recState
    /\ restartTimeout' = 0
    /\ UNCHANGED <<isListening, errorMessage, startedAgo, restartCount, quickEnds,
                   gvars, svars, uvars, cvars>>

\* recognition.onstart
OnStart ==
    /\ recState = "starting"
    /\ recState' = "running"
    /\ isListening' = TRUE
    /\ micStatus' = "active"
    /\ errorMessage' = ""
    /\ startedAgo' = FALSE
    /\ restartCount' = 0
    /\ UNCHANGED <<desiredState, restartTimeout, quickEnds, gvars, svars, uvars, cvars>>

\* a second passes since startTimeRef was set
SecondPasses ==
    /\ ~startedAgo
    /\ startedAgo' = TRUE
    /\ UNCHANGED <<recState, desiredState, micStatus, isListening, errorMessage,
                   restartCount, restartTimeout, quickEnds, gvars, svars, uvars, cvars>>

\* recognition.onerror; the recognizer ends after an error
OnError ==
    /\ recState \in {"starting", "running"}
    /\ recState' = "ending"
    /\ \E err \in RecognitionErrors :
        IF err \in FatalErrors
        THEN /\ desiredState' = FALSE
             /\ micStatus' = "error"
             /\ isListening' = FALSE
             /\ errorMessage' = FatalMessage(err)
             /\ restartTimeout' = 0
        ELSE /\ errorMessage' = IF err = "network" THEN "Network error. Retrying..."
                                ELSE errorMessage
             /\ UNCHANGED <<desiredState, micStatus, isListening, restartTimeout>>
    /\ UNCHANGED <<startedAgo, restartCount, quickEnds, gvars, svars, uvars, cvars>>

\* restartCountRef after the minimum-runtime check of onend
CountedRestarts == IF ~startedAgo THEN restartCount + 1 ELSE restartCount

\* recognition.onend
OnEnd ==
    /\ recState \in {"running", "ending"}
    /\ quickEnds < MaxQuickEnds
    /\ recState' = "idle"
    /\ isListening' = FALSE
    /\ IF ~desiredState
       THEN /\ micStatus' = "idle"
            /\ UNCHANGED <<desiredState, errorMessage, restartCount, restartTimeout, quickEnds>>
       ELSE /\ restartCount' = CountedRestarts
            /\ quickEnds' = IF ~startedAgo THEN quickEnds + 1 ELSE 0
            /\ IF CountedRestarts > 5
               THEN /\ micStatus' = "error"
                    /\ errorMessage' = "Microphone keeps stopping. Please check your connection."
                    /\ desiredState' = FALSE
                    /\ UNCHANGED restartTimeout
               ELSE /\ micStatus' = "initializing"
                    /\ restartTimeout' = backoffDelay(CountedRestarts)
                    /\ UNCHANGED <<desiredState, errorMessage>>
    /\ UNCHANGED <<startedAgo, gvars, svars, uvars, cvars>>

\* the callback of the restart timer, backoffDelay after onend set it
RestartTimerFires ==
    /\ restartTimeout # 0
    /\ restartTimeout' = 0
    /\ startedAgo' = (startedAgo \/ restartTimeout >= 1000)
    /\ recState' = IF desiredState THEN RecognitionStart ELSE recState
    /\ UNCHANGED <<desiredState, micStatus, isListening, errorMessage, restartCount,
                   quickEnds, gvars, svars, uvars, cvars>>

\* reset()
MicReset ==
    /\ errorMessage' = ""
    /\ micStatus' = "idle"
    /\ UNCHANGED <<recState, desiredState, isListening, startedAgo, restartCount,
                   restartTimeout, quickEnds, gvars, svars, uvars, cvars>>

GroundingIdle ==
    /\ gText = ""
    /\ gCount = 0
    /\ gMaterial = NullMaterial
    /\ gMode = "qa"
    /\ gStage = "build"

Init ==
    /\ env \in EnvChoices
    /\ notebooks = {DefaultNotebookId}
    /\ activeNotebookId = DefaultNotebookId
    /\ store = InitialStore
    /\ nextId = 0
    /\ requests = 0
    /\ builtFrom = [id \in NotebookIds |-> NoBuild]
    /\ lastCall = NoCall
    /\ GroundingIdle
    /\ gResult = [answer |-> "", isGrounded |-> FALSE]
    /\ UploadIdle
    /\ ConcurrentIdle
    /\ SpeechIdle

Next ==
    \/ AddSource
    \/ UploadFile
    \/ RemoveSource
    \/ ClearSources
    \/ PostIngest
    \/ Ask
    \/ Dialogue
    \/ Summary
    \/ Suggest
    \/ ClearHistory
    \/ CreateNotebook
    \/ ActivateNotebook

Spec == Init /\ [][Next]_vars

(***************************************************************************)
(* The notebook registry: the notebook operations of the store, with       *)
(* sources added to the notebooks they act on                              *)
(***************************************************************************)
NotebookNext ==
    \/ CreateNotebook
    \/ ActivateNotebook
    \/ RenameNotebook
    \/ DeleteNotebook
    \/ AddSource

SpecNotebooks == Init /\ [][NotebookNext]_vars

(***************************************************************************)
(* The grounding policy applied to bounded raw texts                       *)
(***************************************************************************)
\* pieces a raw model text is assembled from
Chunks ==
    {" ", "\n", "Page 12", " (Physical)", "12:34", "1", "YouTube", " video",
     "ECON note", "Hi", "story a b c d e f g h i j k l m n", "?", REFUSAL}

GroundingMaterials ==
    {NullMaterial, [isNull |-> FALSE, sources |-> <<"", "Econ Note">>]}

Modes == {"qa", "dialogue"}

NoResult == [answer |-> "", isGrounded |-> FALSE]

GInit ==
    /\ env = NoEnv
    /\ notebooks = {DefaultNotebookId}
    /\ activeNotebookId = DefaultNotebookId
    /\ store = InitialStore
    /\ nextId = 0
    /\ requests = 0
    /\ builtFrom = [id \in NotebookIds |-> NoBuild]
    /\ lastCall = NoCall
    /\ gText = ""
    /\ gCount = 0
    /\ gMaterial \in GroundingMaterials
    /\ gMode = "qa"
    /\ gResult = NoResult
    /\ gStage = "build"
    /\ UploadIdle
    /\ ConcurrentIdle
    /\ SpeechIdle

\* the model produces one more piece of its raw text
GAppend ==
    /\ gStage = "build"
    /\ gCount < MaxChunks
    /\ \E c \in Chunks : gText' = gText \o c
    /\ gCount' = gCount + 1
    /\ UNCHANGED <<gMaterial, gMode, gResult, gStage, svars, uvars, cvars, mvars>>

\* enforceGrounding(text, material, mode)
GEnforce ==
    /\ gStage = "build"
    /\ \E m \in Modes :
        /\ gMode' = m
        /\ gResult' = enforceGrounding(gText, gMaterial, m)
    /\ gStage' = "done"
    /\ UNCHANGED <<gText, gCount, gMaterial, svars, uvars, cvars, mvars>>

GNext == GAppend \/ GEnforce

SpecGrounding == GInit /\ [][GNext]_vars

(***************************************************************************)
(* One call of uploadToGemini                                              *)
(***************************************************************************)
\* the server with nothing stored and no request served
ServerIdle ==
    /\ env = NoEnv
    /\ notebooks = {DefaultNotebookId}
    /\ activeNotebookId = DefaultNotebookId
    /\ store = InitialStore
    /\ nextId = 0
    /\ requests = 0
    /\ builtFrom = [id \in NotebookIds |-> NoBuild]
    /\ lastCall = NoCall
    /\ GroundingIdle
    /\ gResult = NoResult

UInit ==
    /\ ServerIdle
    /\ upPc = "start"
    /\ upArgs \in UploadCalls
    /\ uploadResponse = [file |-> NoFile]
    /\ upFile = NoFile
    /\ getFileCalls = 0
    /\ upResult = NoUploadResult
    /\ ConcurrentIdle
    /\ SpeechIdle

UNext == UploadFileCall \/ FirstGetFile \/ WaitWhileProcessing \/ NextGetFile \/ LeaveLoop

SpecUpload == UInit /\ [][UNext]_vars

(***************************************************************************)
(* Requests in flight against a store that holds two notebooks             *)
(***************************************************************************)
\* the sources POST /sources/add stored for two of its request bodies
SeedSource(n, body) ==
    NewSource(SourceId(n),
        [type |-> body.type, name |-> body.name,
         url |-> IF body.type \in {"drive", "youtube"} THEN body.url ELSE NoField,
         content |-> IF body.type = "text" THEN body.content ELSE NoField,
         text |-> NoField, fileUri |-> NoField, mimeType |-> NoField])

SeedDrive ==
    SeedSource(1, [type |-> "drive", url |-> DriveUrl, content |-> "", name |-> "Textbook"])

SeedText ==
    SeedSource(2, [type |-> "text", url |-> "", content |-> "Supply rises when price rises.",
                   name |-> "Econ Note"])

\* the store after: a Drive PDF added to the default notebook, a notebook
\* created (which drops the material of the default notebook), a text added to it
SeededStore ==
    [id \in NotebookIds |->
        IF id = DefaultNotebookId
        THEN [EmptyNotebook EXCEPT !.name = DefaultNotebookName, !.sources = <<SeedDrive>>]
        ELSE setStudyMaterial([EmptyNotebook EXCEPT !.name = NewNotebookName,
                                                    !.sources = <<SeedText>>],
                              IngestedMaterial(IngestLoop(<<SeedText>>, <<"none">>, 1)))]

CInit ==
    /\ env = NoEnv
    /\ notebooks = NotebookIds
    /\ activeNotebookId = "nb1"
    /\ store = SeededStore
    /\ nextId = 2
    /\ requests = 0
    /\ builtFrom = [id \in NotebookIds |->
                        IF id = DefaultNotebookId THEN NoBuild
                        ELSE [arg |-> <<SeedText>>, input |-> <<SeedText>>,
                              outcomes |-> <<"none">>, cleared |-> FALSE]]
    /\ lastCall = NoCall
    /\ GroundingIdle
    /\ gResult = NoResult
    /\ UploadIdle
    /\ ConcurrentIdle
    /\ SpeechIdle

CNext == CStart \/ CFinishIngest \/ CFinishLlm \/ CClearHistory \/ CActivate

SpecConcurrent == CInit /\ [][CNext]_vars

(***************************************************************************)
(* The speech-recognition hook, its user and its recognizer                *)
(***************************************************************************)
MInit ==
    /\ ServerIdle
    /\ UploadIdle
    /\ ConcurrentIdle
    /\ SpeechIdle

MNext ==
    \/ MicStart
    \/ MicStop
    \/ OnStart
    \/ SecondPasses
    \/ OnError
    \/ OnEnd
    \/ RestartTimerFires
    \/ MicReset

SpecSpeech == MInit /\ [][MNext]_vars

(***************************************************************************)
(* Claims about the grounding policy (checked under SpecGrounding)         *)
(***************************************************************************)
\* s contains the literal lit (lower case), letter case ignored
ContainsCI(s, lit) == \E p \in 1..(Len(s) - Len(lit) + 1) : MatchCIAt(s, p, lit)

\* some non-empty name of the material occurs in the text, letter case ignored
NameOccurs(text, material) ==
    /\ ~material.isNull
    /\ \E i \in 1..Len(material.sources) :
        /\ material.sources[i] # ""
        /\ ContainsCI(text, ToLowerCase(material.sources[i]))

\* the text carries none of the citation markers
NoMarker(text, material) ==
    /\ ~ReYoutubeVideo(text)
    /\ ~ReYoutubeWord(text)
    /\ ~ReTimestamp(text)
    /\ ~RePagePhysical(ToLowerCase(text))
    /\ ~NameOccurs(text, material)

\* C1: in Q&A mode a raw text with no YouTube marker, no MM:SS timestamp, no
\* page citation and no source name (the empty text and the refusal sentence
\* included) comes back as exactly {answer: REFUSAL, isGrounded: false}.
C1_UncitedIsRefused ==
    (gStage = "done" /\ gMode = "qa" /\ NoMarker(gText, gMaterial))
        => gResult = [answer |-> REFUSAL, isGrounded |-> FALSE]

C1_Witness ==
    /\ gStage = "done"
    /\ gMode = "qa"
    /\ ~gMaterial.isNull
    /\ Len(gMaterial.sources) > 0
    /\ NoMarker(gText, gMaterial)
    /\ Trim(gText) \notin {"", REFUSAL}
    /\ gResult.answer = REFUSAL

\* the text contains "page <digits> (physical)" in any letter case
HasPagePhysical(text) ==
    \E p \in 1..Len(text) :
        /\ MatchCIAt(text, p, "page ")
        /\ SkipDigits(text, p + 5) > p + 5
        /\ MatchCIAt(text, SkipDigits(text, p + 5), " (physical)")

\* C2: in Q&A mode a raw text containing "page <digits> (physical)", in any
\* letter case, is grounded and returned trimmed, whatever the source list is.
C2_PageCitationAccepted ==
    (gStage = "done" /\ gMode = "qa" /\ HasPagePhysical(gText))
        => gResult = [answer |-> Trim(gText), isGrounded |-> TRUE]

C2_Witness ==
    /\ gStage = "done"
    /\ gMode = "qa"
    /\ HasPagePhysical(gText)
    /\ gText # Trim(gText)
    /\ gMaterial.isNull
    /\ gResult.isGrounded

\* C3: in dialogue mode the reply is never replaced: the answer is the raw
\* text trimmed, and it is the refusal string only if the reply was.
C3_DialogueNeverReplaced ==
    (gStage = "done" /\ gMode = "dialogue")
        => /\ gResult.answer = Trim(gText)
           /\ (gResult.answer = REFUSAL => Trim(gText) = REFUSAL)

C3_Witness ==
    /\ gStage = "done"
    /\ gMode = "dialogue"
    /\ ~gResult.isGrounded
    /\ gResult.answer = Trim(gText)
    /\ gResult.answer # REFUSAL

\* the trimmed reply starts with one of the greeting words, as a word
StartsWithGreetingWord(text) ==
    LET t == Trim(text)
    IN  \E g \in GreetingWords :
            /\ MatchCIAt(t, 1, g)
            /\ (Len(t) = Len(g) \/ ~IsWordChar(CharAt(t, Len(g) + 1)))

\* the number of words of the text: its maximal runs of non-whitespace
WordCount(text) ==
    Cardinality({k \in 1..Len(text) :
        /\ ~IsSpace(CharAt(text, k))
        /\ (k = 1 \/ IsSpace(CharAt(text, k - 1)))})

\* C4: in dialogue mode a reply that starts with a greeting word, or has fewer
\* than 15 words and no "?", is grounded; every other reply is grounded exactly
\* when citation detection succeeds.
C4_DialogueFlag ==
    (gStage = "done" /\ gMode = "dialogue")
        => gResult.isGrounded =
            IF \/ StartsWithGreetingWord(gText)
               \/ (WordCount(gText) < 15 /\ ~IncludesChar(gText, "?"))
            THEN TRUE
            ELSE textCitesMaterial(gText, gMaterial)

(***************************************************************************)
(* Claims about ingestion, the store and requireMaterial (checked under    *)
(* Spec)                                                                   *)
(***************************************************************************)
\* the ingestion the active notebook's stored material came from
LastBuild == builtFrom[activeNotebookId]

\* the last request was answered by askQuestion or dialogueTurn
Orchestrated == lastCall.op \in {"ask", "dialogue"}

\* the last request ran the ingestion pipeline and got a material from it
Ingested == lastCall.ingest # "none" /\ ~lastCall.material.isNull

\* seq without its i-th element
Without(seq, i) == SubSeq(seq, 1, i - 1) \o SubSeq(seq, i + 1, Len(seq))

\* the extractor of the source yields a fragment (it neither throws nor comes
\* back empty-handed)
Succeeds(source, outcome) ==
    \/ source.type \in {"text", "youtube"}
    \/ source.type = "file" /\ (source.fileUri # "" \/ source.text # "")
    \/ source.type = "drive" /\ outcome # "fail" /\ extractDriveFileId(source.url) # ""

\* the source of the active notebook was ingested successfully into the
\* material the notebook holds
SuccessfullyIngested(source) ==
    \E j \in 1..Len(LastBuild.input) :
        /\ LastBuild.input[j].id = source.id
        /\ Succeeds(LastBuild.input[j], LastBuild.outcomes[j])

\* C5: after a source with display name N was added and successfully ingested,
\* an ask whose raw answer is non-empty, is not the refusal and contains N in
\* any letter case returns isGrounded = true and the raw answer verbatim.
C5_NamedSourceIsCitation ==
    (lastCall.op = "ask" /\ lastCall.status = 200
        /\ lastCall.raw # "" /\ lastCall.raw # REFUSAL)
        => \A i \in 1..Len(ActiveNotebook.sources) :
            (/\ SuccessfullyIngested(ActiveNotebook.sources[i])
             /\ ContainsCI(lastCall.raw, ToLowerCase(ActiveNotebook.sources[i].name)))
                => (lastCall.isGrounded /\ lastCall.answer = lastCall.raw)

\* the Drive download of the i-th source of the build failed
DriveFails(b, i) ==
    /\ b.input[i].type = "drive"
    /\ ~Succeeds(b.input[i], b.outcomes[i])

\* the i-th source of the build is replaced by an error notice and every other
\* source is processed as it is without the i-th
NoticeInPlace(m, b, i) ==
    LET pos  == Len(IngestLoop(b.input, b.outcomes, i - 1).parts) + 1
        rest == IngestLoop(Without(b.input, i), Without(b.outcomes, i), Len(b.input) - 1)
    IN  /\ pos <= Len(m.contextParts)
        /\ m.contextParts[pos].kind = "text"
        /\ m.contextParts[pos].tag = "System Error"
        /\ m.contextParts[pos].name = b.input[i].name
        /\ m.contextParts[pos].message =
                "Failed to process Drive file: " \o
                    (IF b.outcomes[i] = "fail" THEN "Network Error"
                     ELSE "Invalid Google Drive URL")
        /\ Without(m.contextParts, pos) = rest.parts
        /\ m.stats.sources = rest.infos
        /\ m.sources = [k \in 1..Len(rest.infos) |-> rest.infos[k].name]

\* C6: an ingestion over a non-empty list returns a material whatever its
\* extractors do; where the extractor of source i threw, the material holds an
\* error notice naming the source and the message at the source's position,
\* its sources omit the source, and the other sources are processed as they
\* are without it.
C6_FailureIsNotFatal ==
    /\ (lastCall.ingest # "none"
            /\ IngestInput(ActiveNotebook.sources, isDefaultActive, env) # <<>>)
        => ~lastCall.material.isNull
    /\ Ingested
        => \A i \in 1..Len(LastBuild.input) :
            DriveFails(LastBuild, i) => NoticeInPlace(lastCall.material, LastBuild, i)

C6_Witness ==
    /\ Ingested
    /\ Len(LastBuild.input) >= 2
    /\ Len(lastCall.material.sources) >= 1
    /\ \E i \in 1..Len(LastBuild.input) : DriveFails(LastBuild, i)

\* the environment defaults that are configured: the textbook, then the two videos
ConfiguredDefaults ==
    SelectSeq(<<[type |-> "drive", url |-> env.PDF_URL, name |-> "Economics Textbook"],
                [type |-> "youtube", url |-> env.YOUTUBE_VIDEO_1,
                 name |-> "Oligopoly - Kinked Demand"],
                [type |-> "youtube", url |-> env.YOUTUBE_VIDEO_2,
                 name |-> "Oligopoly - Game Theory"]>>,
              LAMBDA d : d.url # "")

\* the request just served failed with NoSources and left the store as it was
\* (generateSuggestedQuestions catches the error, so its route answers 200)
FailsWithNoSources(message) ==
    /\ lastCall'.op # "suggest" => lastCall'.status >= 400
    /\ lastCall'.message = message
    /\ lastCall'.material.isNull
    /\ store' = store

\* the request just served built its material from the configured defaults
BuiltFromDefaults ==
    /\ ~lastCall'.material.isNull
    /\ store'[activeNotebookId].studyMaterial.contextParts = lastCall'.material.contextParts
    /\ Len(builtFrom'[activeNotebookId].input) = Len(ConfiguredDefaults)
    /\ \A k \in 1..Len(ConfiguredDefaults) :
        /\ builtFrom'[activeNotebookId].input[k].type = ConfiguredDefaults[k].type
        /\ builtFrom'[activeNotebookId].input[k].url = ConfiguredDefaults[k].url
        /\ builtFrom'[activeNotebookId].input[k].name = ConfiguredDefaults[k].name

\* C7: an ingestion called with a null source list fails with NoSources when
\* the active notebook is not the default one; with the default notebook active
\* it works on the configured environment defaults (textbook, first video,
\* second video) and fails with NoSources only when none is configured; a
\* failing call produces and stores no material.
C7_NullSourceList ==
    [][(requests' # requests /\ lastCall'.ingest = "null")
        => IF activeNotebookId # DefaultNotebookId
           THEN FailsWithNoSources("No sources provided for active notebook")
           ELSE IF ConfiguredDefaults = <<>>
           THEN FailsWithNoSources("No sources provided")
           ELSE BuiltFromDefaults]_vars

C7_Witness ==
    /\ lastCall.ingest = "null"
    /\ ~lastCall.material.isNull
    /\ Len(LastBuild.input) = 3
    /\ LastBuild.input[1].name = "Economics Textbook"

\* the positions of the build's input whose source was ingested, in order
IngestedPositions(b) ==
    SelectSeq([i \in 1..Len(b.input) |-> i],
              LAMBDA i : Succeeds(b.input[i], b.outcomes[i]))

\* the name the pipeline records for a source
RecordedName(source) ==
    IF source.type = "drive" THEN "Google Drive PDF - " \o extractDriveFileId(source.url)
    ELSE source.name

\* the sources were added in the order the list holds them
InAddOrder(sources) ==
    \A i, j \in 1..Len(sources) :
        (i < j /\ sources[i].id # NoField)
            => \E a, b \in 1..MaxIds :
                a < b /\ sources[i].id = SourceId(a) /\ sources[j].id = SourceId(b)

\* C8: sources and stats.sources of a stored material list the successfully
\* ingested sources in the order of the input list, which is the order the
\* sources were added in; failed sources are skipped.
C8_OrderPreserved ==
    \A id \in NotebookIds :
        /\ InAddOrder(store[id].sources)
        /\ ~store[id].studyMaterial.isNull
            => LET m   == store[id].studyMaterial
                   b   == builtFrom[id]
                   pos == IngestedPositions(b)
               IN  /\ InAddOrder(b.input)
                   /\ Len(m.sources) = Len(pos)
                   /\ Len(m.stats.sources) = Len(pos)
                   /\ \A k \in 1..Len(pos) :
                        /\ m.sources[k] = RecordedName(b.input[pos[k]])
                        /\ m.stats.sources[k].name = RecordedName(b.input[pos[k]])
                        /\ m.stats.sources[k].type = b.input[pos[k]].type

C8_Witness ==
    \E id \in NotebookIds :
        /\ ~store[id].studyMaterial.isNull
        /\ Len(store[id].studyMaterial.sources) >= 2
        /\ store[id].studyMaterial.sources[1] # store[id].studyMaterial.sources[2]
        /\ Len(builtFrom[id].input) > Len(store[id].studyMaterial.sources)

\* C9: after the source list of the active notebook changed, the next
\* orchestrator call re-ingests, so the material it answers from was built
\* from the current source list.
C9_ReingestAfterChange ==
    (Orchestrated /\ lastCall.status = 200 /\ lastCall.stale)
        => /\ lastCall.ingest # "none"
           /\ LastBuild.arg = ActiveNotebook.sources

\* C10: with a material stored and the source list unchanged since it was
\* built, an orchestrator call uses the stored material and runs no ingestion,
\* the two signatures being equal.
C10_ReadyIsStable ==
    (Orchestrated /\ lastCall.hadMaterial /\ ~lastCall.stale)
        => /\ lastCall.ingest = "none"
           /\ signature(ActiveNotebook.sources) = sigMaterial(ActiveNotebook.studyMaterial)

(***************************************************************************)
(* Claims about clearing, the summary and the suggested questions          *)
(***************************************************************************)
MaterialNotIngested(call) ==
    call.status = 400 /\ call.message = "Study material not ingested yet"

\* C11: POST /sources/clear leaves the active notebook with an empty source
\* list and no study material, and in a non-default notebook whose sources were
\* cleared and to which no source has been added since, every ask, dialogue and
\* summary request fails with "Study material not ingested yet" (400) and
\* leaves the store as it was.
C11_ClearInvalidatesMaterial ==
    [][ /\ lastCall'.op = "clear" =>
            /\ ActiveNotebook'.sources = <<>>
            /\ ActiveNotebook'.studyMaterial.isNull
        /\ ( /\ lastCall'.op \in {"ask", "dialogue", "summary"}
             /\ ~isDefaultActive
             /\ Cleared )
           => /\ MaterialNotIngested(lastCall')
              /\ store' = store ]_vars

C11_Witness ==
    /\ lastCall.op \in {"ask", "dialogue", "summary"}
    /\ ~isDefaultActive
    /\ Cleared
    /\ MaterialNotIngested(lastCall)

\* C12: generateSummary calls the model once or twice; twice only when the
\* first text is not JSON; and after two calls it returns rather than throws:
\* the object parsed from the second text, or, when that is not JSON either,
\* the fixed fallback summary carrying the (first) raw text.
C12_SummaryRetriesOnce ==
    (lastCall.op = "summary" /\ lastCall.llmCalls > 0) =>
        /\ lastCall.llmCalls \in {1, 2}
        /\ (lastCall.llmCalls = 1 /\ lastCall.status = 200) =>
                /\ JsonParses(extractJson(lastCall.raw))
                /\ lastCall.summary = ParsedSummary(extractJson(lastCall.raw))
        /\ lastCall.llmCalls = 2 =>
                /\ ~JsonParses(extractJson(lastCall.raw))
                /\ lastCall.status = 200
                /\ lastCall.summary =
                      IF JsonParses(extractJson(lastCall.retryRaw))
                      THEN ParsedSummary(extractJson(lastCall.retryRaw))
                      ELSE FallbackSummary(lastCall.raw)

\* two texts that are not JSON, and the fallback summary returned
C12_Witness ==
    /\ lastCall.op = "summary"
    /\ lastCall.llmCalls = 2
    /\ lastCall.retryRaw # ""
    /\ ~JsonParses(extractJson(lastCall.retryRaw))
    /\ lastCall.status = 200
    /\ lastCall.summary = FallbackSummary(lastCall.raw)

\* C13: the isGrounded flag of a summary is true only when the summary the
\* model wrote is non-empty, is not the refusal string and cites the material;
\* the fallback summary is not reported as grounded.
C13_SummaryGroundingIsStrict ==
    (lastCall.op = "summary" /\ lastCall.status = 200 /\ lastCall.isGrounded) =>
        /\ lastCall.summary # FallbackSummary(lastCall.raw)
        /\ lastCall.summary.json # ""
        /\ lastCall.summary.json # REFUSAL
        /\ textCitesMaterial(lastCall.summary.json, lastCall.material)

\* C14: a suggest-questions request (without force) made while the active
\* notebook caches a non-empty question list answers exactly that list, calls
\* neither the model nor the ingestion, and leaves the cache (and the rest of
\* the store) unchanged.
C14_CachedQuestionsReturned ==
    [][ (lastCall'.op = "suggest" /\ ActiveNotebook.suggestedQuestions # <<>>) =>
            /\ lastCall'.status = 200
            /\ lastCall'.questions = ActiveNotebook.suggestedQuestions
            /\ lastCall'.llmCalls = 0
            /\ lastCall'.ingest = "none"
            /\ store' = store
            /\ builtFrom' = builtFrom ]_vars

\* a request answered from the cache: no model call, the cached list returned
C14_Witness ==
    /\ lastCall.op = "suggest"
    /\ lastCall.llmCalls = 0
    /\ ActiveNotebook.suggestedQuestions # <<>>
    /\ lastCall.questions = ActiveNotebook.suggestedQuestions

\* C19: a suggest-questions request made while no material can be obtained (a
\* non-default notebook without sources, stored material or cached questions)
\* answers 400 with the fallback question list.
C19_SuggestWithoutMaterial ==
    ( /\ lastCall.op = "suggest"
      /\ ~isDefaultActive
      /\ ActiveNotebook.sources = <<>>
      /\ ActiveNotebook.studyMaterial.isNull
      /\ ActiveNotebook.suggestedQuestions = <<>> )
    => /\ lastCall.status = 400
       /\ lastCall.questions = NotIngestedQuestions

\* C16: DELETE /sources/:id with an id that is not in the active notebook's
\* source list answers 404 "Source not found" (never success) and leaves the
\* source list and the stored material, the whole store, unchanged.
C16_UnknownIdNotFound ==
    [][ ( /\ lastCall'.op = "remove"
          /\ \A i \in 1..Len(ActiveNotebook.sources) :
                ActiveNotebook.sources[i].id # lastCall'.target )
        => /\ lastCall'.status = 404
           /\ lastCall'.message = "Source not found"
           /\ store' = store ]_vars

\* an unknown id was asked for while the notebook holds a source and material
C16_Witness ==
    /\ lastCall.op = "remove"
    /\ lastCall.status = 404
    /\ ActiveNotebook.sources # <<>>
    /\ ~ActiveNotebook.studyMaterial.isNull
    /\ \A i \in 1..Len(ActiveNotebook.sources) : ActiveNotebook.sources[i].id # lastCall.target

C18_UnmetPreconditionsAre400 ==
    ( /\ lastCall.op \in {"ingest", "ask", "dialogue", "summary"}
      /\ ActiveNotebook.sources = <<>>
      /\ ActiveNotebook.studyMaterial.isNull
      /\ (~isDefaultActive \/ ConfiguredDefaults = <<>>) )
    => /\ lastCall.status \in 400..499
       /\ lastCall.message # ""

(***************************************************************************)
(* Claims about the order of the assembled fragments                       *)
(***************************************************************************)
\* the fragment is the physical-page-count notice of a Drive PDF
IsNotice(part) == part.kind = "text" /\ part.tag = "SOURCE META"

\* the fragment is the remote-file reference of the Drive PDF the notice names
IsFileOf(part, notice) ==
    /\ part.kind = "fileData"
    /\ \E u \in Urls :
        /\ ~ProcessedDriveFiles[u]["pages"].threw
        /\ ProcessedDriveFiles[u]["pages"].name = notice.name
        /\ ProcessedDriveFiles[u]["pages"].fileUri = part.fileUri

\* the fragment is the one the loop body makes for the source: its file or
\* text, or the error notice of a Drive source that failed
Belongs(part, source, outcome) ==
    IF source.type = "drive"
    THEN IF Succeeds(source, outcome)
         THEN part.kind = "fileData" /\ part.fileUri = ProcessedDriveFiles[source.url][outcome].fileUri
         ELSE part.kind = "text" /\ part.tag = "System Error" /\ part.name = source.name
    ELSE IF source.type = "youtube"
    THEN part.kind = "text" /\ part.tag = "SOURCE" /\ part.label = "YouTube Video"
         /\ part.url = source.url /\ part.name = source.name
    ELSE IF source.type = "text"
    THEN part.kind = "text" /\ part.tag = "SOURCE" /\ part.label = "Text"
         /\ part.body = source.content /\ part.name = source.name
    ELSE IF source.fileUri # ""
    THEN part.kind = "fileData" /\ part.fileUri = source.fileUri
    ELSE part.kind = "text" /\ part.tag = "SOURCE" /\ part.label = "File"
         /\ part.body = source.text /\ part.name = source.name

\* the positions of the build's input whose source yields a fragment of its own
FragmentPositions(b) ==
    SelectSeq([i \in 1..Len(b.input) |-> i],
              LAMBDA i : b.input[i].type # "file" \/ Succeeds(b.input[i], b.outcomes[i]))

\* the positions of the build's input that are Drive PDFs whose page count is known
CountedPositions(b) ==
    SelectSeq([i \in 1..Len(b.input) |-> i],
              LAMBDA i : b.input[i].type = "drive" /\ b.outcomes[i] = "pages")

\* the fragments other than page-count notices follow the input sources in
\* order, and there is one notice per Drive PDF whose page count is known
FragmentsFollowInput(parts, b) ==
    /\ Len(SelectSeq(parts, LAMBDA x : ~IsNotice(x))) = Len(FragmentPositions(b))
    /\ \A k \in 1..Len(FragmentPositions(b)) :
          Belongs(SelectSeq(parts, LAMBDA x : ~IsNotice(x))[k],
                  b.input[FragmentPositions(b)[k]], b.outcomes[FragmentPositions(b)[k]])
    /\ Len(SelectSeq(parts, IsNotice)) = Len(CountedPositions(b))

NoticeBeforeFile(parts) ==
    \A k \in 1..Len(parts) :
        IsNotice(parts[k]) => (k < Len(parts) /\ IsFileOf(parts[k + 1], parts[k]))

NoticeAfterFile(parts) ==
    \A k \in 1..Len(parts) :
        IsNotice(parts[k]) => (k > 1 /\ IsFileOf(parts[k - 1], parts[k]))

\* C20 as stated: the fragments follow the order of the input sources, and the
\* page-count notice of a Drive PDF comes immediately after that PDF's file
\* fragment.
C20_NoticeAfterParent ==
    \A id \in NotebookIds :
        ~store[id].studyMaterial.isNull =>
            /\ FragmentsFollowInput(store[id].studyMaterial.contextParts, builtFrom[id])
            /\ NoticeAfterFile(store[id].studyMaterial.contextParts)

\* C20, amended: the fragments follow the order of the input sources, and the
\* page-count notice of a Drive PDF comes immediately before that PDF's file
\* fragment, with nothing in between.
C20_NoticeBeforeParent ==
    \A id \in NotebookIds :
        ~store[id].studyMaterial.isNull =>
            /\ FragmentsFollowInput(store[id].studyMaterial.contextParts, builtFrom[id])
            /\ NoticeBeforeFile(store[id].studyMaterial.contextParts)

\* a material of two sources whose second one is a Drive PDF with its notice
C20_Witness ==
    /\ ~ActiveNotebook.studyMaterial.isNull
    /\ Len(ActiveNotebook.studyMaterial.contextParts) = 3
    /\ ~IsNotice(ActiveNotebook.studyMaterial.contextParts[1])
    /\ IsNotice(ActiveNotebook.studyMaterial.contextParts[2])
    /\ IsFileOf(ActiveNotebook.studyMaterial.contextParts[3],
                ActiveNotebook.studyMaterial.contextParts[2])

(***************************************************************************)
(* Claims about the notebook registry (checked under SpecNotebooks)        *)
(***************************************************************************)
\* C15: whatever notebook operations are run, the default notebook exists under
\* its original name and the active notebook is one that exists; a rename or
\* delete aimed at the default notebook fails with PolicyViolation and changes
\* nothing; deleting the active non-default notebook makes the default one
\* active.
C15_DefaultNotebookKept ==
    [][ /\ DefaultNotebookId \in notebooks'
        /\ store'[DefaultNotebookId].name = DefaultNotebookName
        /\ activeNotebookId' \in notebooks'
        /\ ( /\ lastCall'.op \in {"rename-notebook", "delete-notebook"}
             /\ lastCall'.target = DefaultNotebookId )
           => /\ lastCall'.message = "PolicyViolation"
              /\ lastCall'.status \in 400..499
              /\ UNCHANGED <<store, notebooks, activeNotebookId>>
        /\ ( /\ lastCall'.op = "delete-notebook"
             /\ lastCall'.target = activeNotebookId
             /\ activeNotebookId # DefaultNotebookId )
           => /\ lastCall'.status = 200
              /\ activeNotebookId' = DefaultNotebookId
              /\ notebooks' = notebooks \ {activeNotebookId} ]_vars

\* the active notebook, holding a source and its material, was deleted
C15_Witness ==
    /\ lastCall.op = "delete-notebook"
    /\ lastCall.status = 200
    /\ lastCall.wasActive
    /\ lastCall.target \notin notebooks
    /\ activeNotebookId = DefaultNotebookId
    /\ lastCall.hadMaterial

(***************************************************************************)
(* Claims about what the ingestion pipeline keeps of its input             *)
(***************************************************************************)
\* the fragment is the error notice the catch block pushes for the source
IsErrorNoticeOf(part, source) ==
    part.kind = "text" /\ part.tag = "System Error" /\ part.name = source.name

\* the i-th source of the build is accounted for in the material: a content
\* fragment of its own with its name listed in sources, or an error notice naming it
AccountedFor(m, b, i) ==
    \E k \in 1..Len(m.contextParts) :
        \/ IsErrorNoticeOf(m.contextParts[k], b.input[i])
        \/ /\ ~IsErrorNoticeOf(m.contextParts[k], b.input[i])
           /\ Belongs(m.contextParts[k], b.input[i], b.outcomes[i])
           /\ \E j \in 1..Len(m.sources) : m.sources[j] = RecordedName(b.input[i])

\* C21: ingestion never silently drops an input source: every source of the
\* list has a content fragment and an entry in sources, or an error notice
\* naming it, so a non-empty input list never yields an empty contextParts.
C21_NoSourceDropped ==
    \A id \in NotebookIds :
        ~store[id].studyMaterial.isNull =>
            /\ \A i \in 1..Len(builtFrom[id].input) :
                    AccountedFor(store[id].studyMaterial, builtFrom[id], i)
            /\ builtFrom[id].input # <<>> => store[id].studyMaterial.contextParts # <<>>

\* the source was stored by POST /upload for a PDF
IsPdfUpload(source) ==
    /\ source.type = "file"
    /\ \E f \in UploadFiles : f.mimetype = "application/pdf" /\ f.originalname = source.name

\* C22: the source stored for a PDF accepted by POST /upload carries the
\* fileUri and mimeType of the remote file, so the ingestion that follows emits
\* a remote-file fragment for it and lists its name in the sources of the material.
C22_UploadedPdfIsRemoteFile ==
    (lastCall.op = "upload" /\ lastCall.status = 200
        /\ IsPdfUpload(ActiveNotebook.sources[Len(ActiveNotebook.sources)]))
    => LET s == ActiveNotebook.sources[Len(ActiveNotebook.sources)]
       IN  /\ s.fileUri # ""
           /\ s.mimeType # ""
           /\ \E k \in 1..Len(lastCall.material.contextParts) :
                /\ lastCall.material.contextParts[k].kind = "fileData"
                /\ lastCall.material.contextParts[k].fileUri = s.fileUri
           /\ \E j \in 1..Len(lastCall.material.sources) : lastCall.material.sources[j] = s.name

\* the fragment presents the source to the model as a regular video reference
IsVideoReferenceOf(part, source) ==
    /\ part.kind = "text" /\ part.tag = "SOURCE" /\ part.label = "YouTube Video"
    /\ part.url = source.url

\* C23: for a YouTube source whose URL matches none of the recognised shapes,
\* ingestion emits an explicit failure notice and never a regular
\* video-reference fragment (such as one carrying a null video id).
C23_BadVideoUrlIsNoticed ==
    \A id \in NotebookIds :
        ~store[id].studyMaterial.isNull =>
            \A i \in 1..Len(builtFrom[id].input) :
                (builtFrom[id].input[i].type = "youtube"
                    /\ extractVideoId(builtFrom[id].input[i].url) = "")
                => /\ \E k \in 1..Len(store[id].studyMaterial.contextParts) :
                        IsErrorNoticeOf(store[id].studyMaterial.contextParts[k],
                                        builtFrom[id].input[i])
                   /\ \A k \in 1..Len(store[id].studyMaterial.contextParts) :
                        ~IsVideoReferenceOf(store[id].studyMaterial.contextParts[k],
                                            builtFrom[id].input[i])

(***************************************************************************)
(* Claims about the upload protocol (checked under SpecUpload)             *)
(***************************************************************************)
\* C24: the file status is polled after the upload and polled again while the
\* state is PROCESSING; the call throws ProcessingFailed when the state seen on
\* leaving the loop is FAILED, and returns the file handle (URI and MIME type)
\* only when that state is ACTIVE, never in any other state.
C24_ReturnsOnlyActive ==
    /\ upPc = "waited" => upFile.state = "PROCESSING"
    /\ upPc \in {"returned", "loop", "waited"} => getFileCalls >= 1
    /\ (upPc = "threw" /\ upFile.state = "FAILED")
        => upResult.message = "Video processing failed."
    /\ upPc = "returned"
        => /\ upFile.state = "ACTIVE"
           /\ upResult.file.uri = uploadResponse.file.uri
           /\ upResult.file.mimeType = upArgs.mimeType

(***************************************************************************)
(* Claims about failures of the model call                                 *)
(***************************************************************************)
\* C25: when a model call made by ask, dialogue or summary throws (the retry
\* call of generateSummary included), the operation rejects with that error,
\* returns no success-shaped payload and appends nothing to qaHistory or
\* conversationHistory.
C25_LlmFailurePropagates ==
    [][(requests' # requests /\ lastCall'.op \in {"ask", "dialogue", "summary"}
            /\ lastCall'.llmThrew)
        => /\ lastCall'.status >= 400
           /\ lastCall'.message = "fetch failed"
           /\ lastCall'.answer = ""
           /\ lastCall'.summary = NoSummary
           /\ \A id \in NotebookIds :
                /\ store'[id].qaHistory = store[id].qaHistory
                /\ store'[id].conversationHistory = store[id].conversationHistory]_vars

\* ---------------------------------------------------------------------------
\* C29: the cached question list of a notebook is empty, or it is the validated
\* list of a model reply that parsed as a JSON array (strings only, each longer
\* than 5 characters once trimmed, at most 7 of them); a reply that does not
\* parse, a reply that is no array and the no-material message never reach the
\* cache.
IsValidatedReply(questions) ==
    \E t \in SuggestReplies :
        /\ JsonParses(Trim(t))
        /\ CharAt(Trim(t), 1) = "["
        /\ questions = Slice(SelectSeq(JsonArrayStrings(Trim(t), 2),
                                       LAMBDA q : Len(Trim(q)) > 5), 7)

C29_CacheOnlyValidatedQuestions ==
    \A id \in notebooks :
        \/ store[id].suggestedQuestions = <<>>
        \/ /\ IsValidatedReply(store[id].suggestedQuestions)
           /\ store[id].suggestedQuestions # NoMaterialQuestions

\* the same without the list the catch of JSON.parse substitutes
C29_ExceptParseFallback ==
    \A id \in notebooks :
        \/ store[id].suggestedQuestions = <<>>
        \/ store[id].suggestedQuestions = <<"Review the summary of the material.">>
        \/ /\ IsValidatedReply(store[id].suggestedQuestions)
           /\ store[id].suggestedQuestions # NoMaterialQuestions

\* ---------------------------------------------------------------------------
\* C26: for every dialogue turn appended to conversationHistory, the turn's
\* conversationLength equals the length of conversationHistory right after the
\* append, under every interleaving of dialogue turns and clear-history requests.
TurnAppended(cid) ==
    /\ calls[cid].op = "dialogue"
    /\ calls[cid].pc = "llm"
    /\ calls'[cid].pc = "done"
    /\ calls'[cid].status = 200

C26_RunningTurnCounter ==
    [][\A cid \in CallIds :
        TurnAppended(cid) =>
            calls'[cid].entry.conversationLength
                = Len(store'[activeNotebookId].conversationHistory)]_vars

\* the same for turns whose captured array is still the one the notebook they
\* append to holds (no clear-history and no notebook switch since the read)
C26_CounterOfLiveArray ==
    [][\A cid \in CallIds :
        (TurnAppended(cid) /\ calls[cid].history = getHistory) =>
            calls'[cid].entry.conversationLength
                = Len(store'[activeNotebookId].conversationHistory)]_vars

\* two turns were in flight together and both were appended
C26_TwoTurnsInterleaved ==
    \E a, b \in CallIds :
        /\ a < b
        /\ calls[a].op = "dialogue" /\ calls[a].status = 200
        /\ calls[b].op = "dialogue" /\ calls[b].status = 200
        /\ calls[a].into = calls[b].into
        /\ calls[a].entry.conversationLength > calls[b].entry.conversationLength

\* ---------------------------------------------------------------------------
\* C27: within one ask or dialogue call, the context parts sent to the model,
\* the source names used for citation detection and the sources of the entry
\* returned and persisted all come from one material snapshot, the one
\* requireMaterial returned to the call, also when another request replaces the
\* stored material while the model call is in flight.
Answered(cid) ==
    /\ calls[cid].op \in {"ask", "dialogue"}
    /\ calls[cid].pc = "llm"
    /\ calls'[cid].pc = "done"
    /\ calls'[cid].status = 200

Persisted(cid) ==
    IF calls[cid].op = "ask"
    THEN store'[activeNotebookId].qaHistory[Len(store'[activeNotebookId].qaHistory)]
    ELSE store'[activeNotebookId].conversationHistory[
            Len(store'[activeNotebookId].conversationHistory)]

C27_OneMaterialSnapshot ==
    [][\A cid \in CallIds :
        Answered(cid) =>
            /\ calls'[cid].parts = normalizeParts(calls[cid].material.contextParts)
            /\ calls'[cid].names = calls[cid].material.sources
            /\ calls'[cid].entry.isGrounded
                = enforceGrounding(calls'[cid].raw, calls[cid].material,
                                   IF calls[cid].op = "dialogue" THEN "dialogue"
                                   ELSE "qa").isGrounded
            /\ calls'[cid].entry.sources = calls[cid].material.sources
            /\ Persisted(cid).sources = calls[cid].material.sources]_vars

\* a call was answered in the notebook it started in, after another request's
\* ingestion had replaced the material stored there by one with other sources
C27_Witness ==
    \E a, b \in CallIds :
        /\ a # b
        /\ calls[a].op \in {"ask", "dialogue"}
        /\ calls[a].status = 200
        /\ calls[a].replaced
        /\ calls[a].into = calls[a].from
        /\ calls[b].landed = calls[a].into
        /\ calls[b].material.sources # calls[a].material.sources
        /\ calls[a].entry.sources = calls[a].material.sources
        /\ store[calls[a].into].studyMaterial.sources = calls[b].material.sources

\* ---------------------------------------------------------------------------
\* C28: the material stored in a notebook is built from that notebook's own
\* sources: a material whose ingestion was started for one notebook is not
\* stored into another notebook that became the active one while the ingestion
\* was awaiting an extractor.
C28_MaterialStaysInItsNotebook ==
    \A cid \in CallIds :
        calls[cid].landed # "" => calls[cid].landed = calls[cid].from

\* the same for ingestions during which the active notebook was not switched:
\* what is stored was built from the sources the notebook held at the start
C28_BuiltFromOwnSources ==
    [][\A cid \in CallIds :
        (calls[cid].pc = "extract" /\ calls'[cid].landed = calls[cid].from)
            => /\ builtFrom'[calls[cid].from].arg = calls[cid].arg
               /\ store'[calls[cid].from].studyMaterial.sources = calls'[cid].material.sources]_vars

\* ---------------------------------------------------------------------------
\* C30: while the user wants the microphone active, the sixth consecutive end
\* that comes less than a second after its start makes the hook give up:
\* micStatus becomes 'error', the desired state is cleared and no restart is
\* scheduled, so the hook does not restart forever.
C30_GivesUpAfterQuickEnds ==
    [][(quickEnds' # quickEnds /\ quickEnds' > 5)
        => /\ micStatus' = "error"
           /\ ~desiredState'
           /\ restartTimeout' = 0]_vars

\* what the hook does instead: onstart sets restartCountRef back to 0 before
\* every end it could count, so the count never passes 1 and the branch that
\* gives up is never taken
C30_CountNeverPassesOne ==
    /\ restartCount <= 1
    /\ errorMessage # "Microphone keeps stopping. Please check your connection."

====
